---- MODULE Spec2Model ----
(***************************************************************************)
(* Acquisition-and-reconciliation pipeline of the TWSE data center:        *)
(* source fetchers, fetch orchestrator, return calculator and the          *)
(* incremental store of server.py (update_stocks).                         *)
(*                                                                         *)
(* Dates are triples <<year, month, day>>.  A 'YYYY-MM-DD' string and the  *)
(* datetime it parses to are both written as that triple; comparing two    *)
(* such zero-padded strings is the lexicographic comparison DateLE.        *)
(* Prices are integers (the bound 30000 is in the same unit).              *)
(***************************************************************************)
EXTENDS Integers, Sequences, FiniteSets, TLC

VARIABLES
    \* ---- fetch_twse_stock_data, one call, step by step
    tw_pc,          \* "idle" | "loop" | "request" | "advance" | "done"
    start_dt,       \* parsed start_date
    end_dt,         \* parsed end_date
    current_date,   \* loop variable of the month loop
    retry_count,    \* attempts used in the current month's round
    tw_result,      \* result list being collected
    tw_rounds,      \* months <<y, m>> for which a request round was run, in order
    tw_ret,         \* "pending" | "None" | "list" : what the call returned
    \* ---- the store and the catalog cache
    symbols_cache,  \* StockDataAPI.symbols_cache (<<>> when None)
    stock_prices,   \* table stock_prices: a set of rows
    stock_returns,  \* table stock_returns: a set of rows
    \* ---- update_stocks, one request at a time
    pc,             \* "idle" | "loop" | "done"; "lib": the store of the serverless updater
    symbols,        \* the request's symbols
    start_date,     \* the request's start_date
    end_date,       \* the request's end_date (NoDate when omitted)
    update_prices,
    update_returns,
    i,              \* index of the next symbol of the loop
    results,
    errors,
    latest_price_date_map,
    tx_failed,      \* the connection's transaction is aborted
    nreq,           \* requests started so far
    \* ---- history
    it,             \* what the loop iteration just run did
    last_written,   \* per key, the row of the most recent successful upsert
    \* ---- the returns part of one loop iteration, lines 1616-1709
    rt_pc,          \* "fetched" | "calculated" | "prepared"
    price_series,   \* price_data, the rows the fetch returned
    daily_returns,
    weekly_returns,
    monthly_returns,
    prepared,       \* the tuples built for stock_returns, in order
    \* ---- update_stocks requests served by concurrent threads (line 2060)
    requests        \* per thread: where its request is and what it has read

twvars == <<tw_pc, start_dt, end_dt, current_date, retry_count, tw_result,
            tw_rounds, tw_ret>>

upvars == <<symbols_cache, stock_prices, stock_returns, pc, symbols, start_date,
            end_date, update_prices, update_returns, i, results, errors,
            latest_price_date_map, tx_failed, nreq, it, last_written>>

rtvars == <<rt_pc, price_series, daily_returns, weekly_returns, monthly_returns,
            prepared>>

ccvars == <<requests>>

vars == <<twvars, upvars, rtvars, ccvars>>

-----------------------------------------------------------------------------
(* Calendar (datetime, timedelta)                                          *)

NoDate == <<>>

IsLeap(y) == (y % 4 = 0 /\ y % 100 # 0) \/ y % 400 = 0

DaysInMonth(y, m) ==
    IF m = 2 THEN (IF IsLeap(y) THEN 29 ELSE 28)
    ELSE IF m \in {4, 6, 9, 11} THEN 30 ELSE 31

\* datetime(y, m, d) raises ValueError unless this holds
ValidDate(dt) ==
    /\ dt[2] \in 1..12
    /\ dt[3] >= 1
    /\ dt[3] <= DaysInMonth(dt[1], dt[2])

DateLT(a, b) ==
    \/ a[1] < b[1]
    \/ a[1] = b[1] /\ a[2] < b[2]
    \/ a[1] = b[1] /\ a[2] = b[2] /\ a[3] < b[3]

DateLE(a, b) == a = b \/ DateLT(a, b)

\* dt + timedelta(days=1)
AddDay(dt) ==
    IF dt[3] < DaysInMonth(dt[1], dt[2]) THEN <<dt[1], dt[2], dt[3] + 1>>
    ELSE IF dt[2] < 12 THEN <<dt[1], dt[2] + 1, 1>>
    ELSE <<dt[1] + 1, 1, 1>>

RECURSIVE AddDays(_, _)
AddDays(dt, n) == IF n = 0 THEN dt ELSE AddDays(AddDay(dt), n - 1)

\* the month after <<y, m>>
NextYM(ym) == IF ym[2] = 12 THEN <<ym[1] + 1, 1>> ELSE <<ym[1], ym[2] + 1>>

YMLE(a, b) == a[1] < b[1] \/ (a[1] = b[1] /\ a[2] <= b[2])

\* every calendar month from a through b inclusive, in order
RECURSIVE MonthsFromTo(_, _)
MonthsFromTo(a, b) ==
    IF YMLE(a, b) THEN <<a>> \o MonthsFromTo(NextYM(a), b) ELSE <<>>

-----------------------------------------------------------------------------
(* fetch_twse_stock_data: helpers                                          *)

PriceLimit == 30000
RocOffset == 1911
max_retries == 3

\* the "--" sentinel of a numeric field of an upstream row
Dash == -1

\* a JSON null in a field of an upstream row
Null == -5

\* float(x.replace(',', '')) if x != '--' else 0
TwseNum(f) == IF f = Dash THEN 0 ELSE f

TwseTradeDateLocalEra(row) == row.date

\* the date the code builds from a row's local-era date parts
TwseTradeDate(row) == <<row.date[1] + RocOffset, row.date[2], row.date[3]>>

\* lines 533-534
TwsePricesOk(o, h, l, c) ==
    o < PriceLimit /\ h < PriceLimit /\ l < PriceLimit /\ c < PriceLimit

\* one upstream row -> <<>> (dropped) or <<dict>> (appended), lines 513-549
TwseParseRow(stock_code, row, s, e) ==
    LET td == TwseTradeDate(row)
        o == TwseNum(row.open)
        h == TwseNum(row.high)
        l == TwseNum(row.low)
        c == TwseNum(row.close)
    IN  IF ~ValidDate(td) THEN <<>>            \* ValueError, caught per row
        ELSE IF ~(DateLE(s, td) /\ DateLE(td, e)) THEN <<>>
        ELSE IF ~TwsePricesOk(o, h, l, c) THEN <<>>
        ELSE << [ticker |-> [code |-> stock_code, suffix |-> "TW"], Date |-> td, Open |-> o,
                 High |-> h, Low |-> l, Close |-> c,
                 Volume |-> TwseNum(row.vol)] >>

\* a row inside the window with a null numeric field: None.replace raises
\* AttributeError, which the handler of line 547 does not catch
TwseRowRaises(row, s, e) ==
    /\ ValidDate(TwseTradeDate(row))
    /\ DateLE(s, TwseTradeDate(row)) /\ DateLE(TwseTradeDate(row), e)
    /\ Null \in {row.vol, row.open, row.high, row.low, row.close}

\* the rows of a response read before one raises (all of them if none does)
RECURSIVE TwseRowsRead(_, _, _)
TwseRowsRead(rows, s, e) ==
    IF rows = <<>> \/ TwseRowRaises(Head(rows), s, e) THEN <<>>
    ELSE <<Head(rows)>> \o TwseRowsRead(Tail(rows), s, e)

RECURSIVE TwseParseRows(_, _, _, _)
TwseParseRows(stock_code, rows, s, e) ==
    IF rows = <<>> THEN <<>>
    ELSE TwseParseRow(stock_code, Head(rows), s, e)
            \o TwseParseRows(stock_code, Tail(rows), s, e)

\* the date column of a row: 'date' if present, else 'Date'
RowDate(row) == IF "date" \in DOMAIN row THEN row.date ELSE row.Date

\* sort by the date column (list.sort(key=...), DataFrame.sort_values):
\* stable insertion of one element
RECURSIVE InsertByDate(_, _)
InsertByDate(sorted, x) ==
    IF sorted = <<>> THEN <<x>>
    ELSE IF DateLT(RowDate(x), RowDate(Head(sorted))) THEN <<x>> \o sorted
    ELSE <<Head(sorted)>> \o InsertByDate(Tail(sorted), x)

RECURSIVE SortByDate(_)
SortByDate(rows) ==
    IF rows = <<>> THEN <<>>
    ELSE InsertByDate(SortByDate(SubSeq(rows, 1, Len(rows) - 1)), rows[Len(rows)])

\* lines 551-555: current_date.replace(...) keeps the day of the month and
\* raises ValueError when the next month has no such day
TwseNextDate(cur) ==
    IF cur[2] = 12 THEN <<cur[1] + 1, 1, cur[3]>> ELSE <<cur[1], cur[2] + 1, cur[3]>>

-----------------------------------------------------------------------------
(* fetch_twse_stock_data, step by step (server.py 448-565)                 *)

\* the months the exchange is asked about in this model: TwMonths months
\* starting with TwFirstMonth
TwMonths == 4
TwFirstMonth == <<2023, 11>>

RECURSIVE MonthAt(_)
MonthAt(k) == IF k = 0 THEN TwFirstMonth ELSE NextYM(MonthAt(k - 1))

TwDaysOfMonth == {1, 20, 31}

TwDates ==
    { dt \in { <<MonthAt(k)[1], MonthAt(k)[2], d>> : k \in 0..(TwMonths - 1),
                                                      d \in TwDaysOfMonth } :
        ValidDate(dt) }

TwStockCode == "2330"

\* an upstream row of month ym: local-era date, volume and prices as the
\* exchange prints them (numbers, or the "--" sentinel)
TwRow(ym, d, c) ==
    [date |-> <<ym[1] - RocOffset, ym[2], d>>, vol |-> 1000,
     open |-> 100, high |-> 110, low |-> 90, close |-> c]

\* the 'data' lists a 200 response for month ym may carry
TwseBodies(ym) ==
    { <<>>,
      <<TwRow(ym, 5, 100), TwRow(ym, 20, 102), TwRow(ym, 25, 105)>>,
      <<TwRow(ym, 25, 105), TwRow(ym, 12, 31000), TwRow(ym, 5, 100)>>,
      <<TwRow(ym, 5, 100), TwRow(ym, 12, Dash), TwRow(ym, 20, 102)>>,
      <<TwRow(ym, 5, 100), [TwRow(ym, 12, 101) EXCEPT !.vol = Null], TwRow(ym, 20, 102)>> }

TwIdle ==
    /\ tw_pc = "idle"
    /\ start_dt = NoDate
    /\ end_dt = NoDate
    /\ current_date = NoDate
    /\ retry_count = 0
    /\ tw_result = <<>>
    /\ tw_rounds = <<>>
    /\ tw_ret = "pending"

\* lines 451-456
TwseCall ==
    /\ tw_pc = "idle"
    /\ \E s \in TwDates, e \in TwDates :
        /\ start_dt' = s
        /\ end_dt' = e
        /\ current_date' = s
    /\ tw_result' = <<>>
    /\ tw_rounds' = <<>>
    /\ retry_count' = 0
    /\ tw_ret' = "pending"
    /\ tw_pc' = "loop"
    /\ UNCHANGED <<upvars, rtvars, ccvars>>

\* line 459 (loop test), 460-476 (a month's round begins), 559-561 (return)
TwseLoop ==
    /\ tw_pc = "loop"
    /\ IF DateLE(current_date, end_dt)
       THEN /\ tw_rounds' = Append(tw_rounds, <<current_date[1], current_date[2]>>)
            /\ retry_count' = 0
            /\ tw_pc' = "request"
            /\ UNCHANGED <<tw_result, tw_ret>>
       ELSE /\ tw_result' = SortByDate(tw_result)
            /\ tw_ret' = "list"
            /\ tw_pc' = "done"
            /\ UNCHANGED <<tw_rounds, retry_count>>
    /\ UNCHANGED <<start_dt, end_dt, current_date>>
    /\ UNCHANGED <<upvars, rtvars, ccvars>>

\* lines 480-482, 508-549: HTTP 200, rows parsed and appended
TwseRespond200 ==
    /\ tw_pc = "request"
    /\ retry_count < max_retries
    /\ \E body \in TwseBodies(<<current_date[1], current_date[2]>>) :
        LET read == TwseRowsRead(body, start_dt, end_dt)
        IN  /\ tw_result' = tw_result \o TwseParseRows(TwStockCode, read, start_dt, end_dt)
            /\ IF read = body
               THEN tw_pc' = "advance" /\ UNCHANGED tw_ret
               ELSE tw_pc' = "done" /\ tw_ret' = "None"    \* lines 563-565
    /\ UNCHANGED <<start_dt, end_dt, current_date, retry_count, tw_rounds>>
    /\ UNCHANGED <<upvars, rtvars, ccvars>>

\* lines 480-482, 508-509, 563-565: HTTP 200 with a body that is not JSON;
\* response.json() raises outside the retry loop's try and outside the
\* per-row try
TwseMalformedBody ==
    /\ tw_pc = "request"
    /\ retry_count < max_retries
    /\ tw_pc' = "done"
    /\ tw_ret' = "None"
    /\ UNCHANGED <<start_dt, end_dt, current_date, retry_count, tw_result, tw_rounds>>
    /\ UNCHANGED <<upvars, rtvars, ccvars>>

\* lines 483-491 (HTTP 500) and 495-503 (timeout): count, wait, retry or give up
TwseRetryable ==
    /\ tw_pc = "request"
    /\ retry_count < max_retries
    /\ retry_count' = retry_count + 1
    /\ tw_pc' = IF retry_count + 1 < max_retries THEN "request" ELSE "advance"
    /\ UNCHANGED <<start_dt, end_dt, current_date, tw_result, tw_rounds, tw_ret>>
    /\ UNCHANGED <<upvars, rtvars, ccvars>>

\* lines 492-494 (other status) and 504-506 (other exception): no retry
TwseAbortMonth ==
    /\ tw_pc = "request"
    /\ retry_count < max_retries
    /\ tw_pc' = "advance"
    /\ UNCHANGED <<start_dt, end_dt, current_date, retry_count, tw_result,
                   tw_rounds, tw_ret>>
    /\ UNCHANGED <<upvars, rtvars, ccvars>>

\* lines 551-557; a ValueError of replace() reaches line 563 and None is returned
TwseAdvance ==
    /\ tw_pc = "advance"
    /\ IF ValidDate(TwseNextDate(current_date))
       THEN /\ current_date' = TwseNextDate(current_date)
            /\ tw_pc' = "loop"
            /\ UNCHANGED tw_ret
       ELSE /\ tw_ret' = "None"
            /\ tw_pc' = "done"
            /\ UNCHANGED current_date
    /\ UNCHANGED <<start_dt, end_dt, retry_count, tw_result, tw_rounds>>
    /\ UNCHANGED <<upvars, rtvars, ccvars>>

\* the last iteration's record before any iteration has run
ItNone ==
    [symbol |-> "none", ran |-> FALSE, fetched |-> FALSE, latest_dt |-> NoDate,
     effective_start |-> NoDate, end_arg |-> NoDate, kind |-> "None", rows |-> <<>>,
     calls |-> <<>>, values |-> <<>>, before |-> {}, wrote |-> FALSE,
     price_records |-> -2, duplicate_records |-> -2, outcome |-> "none",
     held |-> <<>>]

\* no update request has been received, the tables are empty
UpIdle ==
    /\ symbols_cache = <<>>
    /\ stock_prices = {}
    /\ stock_returns = {}
    /\ pc = "idle"
    /\ symbols = <<>>
    /\ start_date = NoDate
    /\ end_date = NoDate
    /\ update_prices = TRUE
    /\ update_returns = TRUE
    /\ i = 1
    /\ results = <<>>
    /\ errors = <<>>
    /\ latest_price_date_map = <<>>
    /\ tx_failed = FALSE
    /\ nreq = 0
    /\ it = ItNone
    /\ last_written = {}

\* no returns are being calculated
RtIdle ==
    /\ rt_pc = "prepared"
    /\ price_series = <<>>
    /\ daily_returns = <<>>
    /\ weekly_returns = <<>>
    /\ monthly_returns = <<>>
    /\ prepared = <<>>

\* no concurrent requests
CcIdle == requests = <<>>

TwseInit == TwIdle /\ UpIdle /\ RtIdle /\ CcIdle

TwseNext ==
    \/ TwseCall
    \/ TwseLoop
    \/ TwseRespond200
    \/ TwseMalformedBody
    \/ TwseRetryable
    \/ TwseAbortMonth
    \/ TwseAdvance

SpecTwse == TwseInit /\ [][TwseNext]_vars

YM(dt) == <<dt[1], dt[2]>>

\* C1: for every window with start <= end, a finished call has run exactly one
\* request round for each calendar month from the month of start_date through
\* the month of end_date, in order, and has returned the collected list.
C1_OneRoundPerMonth ==
    (tw_pc = "done" /\ DateLE(start_dt, end_dt)) =>
        /\ tw_ret = "list"
        /\ tw_rounds = MonthsFromTo(YM(start_dt), YM(end_dt))

-----------------------------------------------------------------------------
(* Symbols, catalog cache and market classification                        *)

\* a symbol string "<code>.<suffix>" is the record of its two parts;
\* suffix "none" is a symbol without a dot
Sym(code, suffix) == [code |-> code, suffix |-> suffix]

TWII == Sym("^TWII", "none")
Sym2330TW == Sym("2330", "TW")
Sym6488TWO == Sym("6488", "TWO")
\* an exchange suffix on a code of the known over-the-counter list
Sym3034TW == Sym("3034", "TW")
Sym2330 == Sym("2330", "none")

Symbols == {Sym2330TW, Sym6488TWO, Sym3034TW, Sym2330, TWII}

MarketListed == "listed"
MarketOTC == "otc"

\* int(stock_code); 0 stands for the ValueError of a non-numeric code
CodeNum(code) ==
    CASE code = "2330" -> 2330
      [] code = "6488" -> 6488
      [] code = "3034" -> 3034
      [] OTHER -> 0

known_otc_stocks ==
    { "3443", "4966", "6488", "3034", "3702", "4904", "5269", "6415",
      "1565", "1569", "1580", "2596", "2633", "2719", "2724", "2729",
      "3131", "3149", "3163", "3167", "3169", "3171", "3176", "3178",
      "4102", "4106", "4108", "4116", "4119", "4126", "4128", "4129",
      "5203", "5222", "5234", "5243", "5245", "5251", "5263", "5264",
      "6104", "6116", "6120", "6121", "6122", "6126", "6128", "6129",
      "7556", "7557", "7561", "7566", "7567", "7568", "7569", "7570",
      "8024", "8027", "8028", "8029", "8032", "8033", "8034", "8035",
      "9188", "9802", "9910", "9911", "9912", "9914", "9917", "9918" }

InOtcRangeWhole(n) == 1000 <= n /\ n <= 9999

\* lines 608-616
InOtcRange(n) ==
    \/ (1500 <= n /\ n <= 1999)
    \/ (2500 <= n /\ n <= 2999)
    \/ (3000 <= n /\ n <= 3999)
    \/ (4000 <= n /\ n <= 4999)
    \/ (5200 <= n /\ n <= 5999)
    \/ (6100 <= n /\ n <= 6999)
    \/ (7500 <= n /\ n <= 7999)
    \/ (8000 <= n /\ n <= 8999)
    \/ (9100 <= n /\ n <= 9999)

\* stock['symbol'] == stock_code or stock['symbol'].startswith(stock_code + '.')
CacheMatches(entry, stock_code) == entry.symbol.code = stock_code

\* is_otc_stock, lines 567-621; cache is symbols_cache (<<>> when None/empty)
is_otc_stock(cache, stock_code) ==
    LET hits == { k \in 1..Len(cache) : CacheMatches(cache[k], stock_code) }
    IN  IF hits # {}
        THEN cache[CHOOSE k \in hits : \A j \in hits : k <= j].market = MarketOTC
        ELSE IF CodeNum(stock_code) = 0 THEN FALSE      \* except: return False
        ELSE IF stock_code \in known_otc_stocks THEN TRUE
        ELSE InOtcRange(CodeNum(stock_code))

-----------------------------------------------------------------------------
(* Upstream market data                                                    *)

\* what a source holds for one trading day of one security
Quote(d, o, h, l, c, v) ==
    [date |-> d, open |-> o, high |-> h, low |-> l, close |-> c, vol |-> v]

Days == { <<2024, 1, 31>>, <<2024, 2, 1>>, <<2024, 2, 2>> }
Today == <<2024, 2, 1>>

\* price profiles: an ordinary one and one whose high and close sit exactly
\* on the sanity bound
Quotes ==
    { Quote(d, 1000, 1010, 990, 1000, 5000) : d \in Days }
        \cup { Quote(d, 29000, PriceLimit, 28000, PriceLimit, 7000) : d \in Days }

MaxFeed == 2

\* a source's answer: up to MaxFeed quotes, dates not decreasing (a date may
\* be repeated)
Feeds ==
    { f \in UNION { [1..n -> Quotes] : n \in 0..MaxFeed } :
        \A k \in 1..(Len(f) - 1) : DateLE(f[k].date, f[k + 1].date) }

\* the exchange's STOCK_DAY 'data' for one month: the month's quotes with
\* local-era dates
TwseMonthResponse(feed, ym) ==
    LET RECURSIVE go(_)
        go(k) ==
            IF k > Len(feed) THEN <<>>
            ELSE (IF YM(feed[k].date) = ym
                  THEN << [date |-> <<feed[k].date[1] - RocOffset, feed[k].date[2],
                                      feed[k].date[3]>>,
                           vol |-> feed[k].vol, open |-> feed[k].open,
                           high |-> feed[k].high, low |-> feed[k].low,
                           close |-> feed[k].close] >>
                  ELSE <<>>) \o go(k + 1)
    IN  go(1)

-----------------------------------------------------------------------------
(* Source fetchers as functions of the window and of what the source holds *)

\* Python's None in a numeric position, and a float NaN
NoneNum == -2
NaNNum == -3

\* fetch_twse_stock_data, lines 448-565, every month answered with HTTP 200:
\* [ret |-> "list" | "None", rows |-> the list]
RECURSIVE TwseMonthLoop(_, _, _, _, _, _)
TwseMonthLoop(stock_code, cur, s, e, feed, acc) ==
    IF ~DateLE(cur, e) THEN [ret |-> "list", rows |-> SortByDate(acc)]
    ELSE LET got == TwseParseRows(stock_code, TwseMonthResponse(feed, YM(cur)), s, e)
         IN  IF ValidDate(TwseNextDate(cur))
             THEN TwseMonthLoop(stock_code, TwseNextDate(cur), s, e, feed, acc \o got)
             ELSE [ret |-> "None", rows |-> <<>>]

fetch_twse_stock_data(stock_code, start, end, feed) ==
    TwseMonthLoop(stock_code, start, start, end, feed, <<>>)

\* the "---" sentinel of the over-the-counter daily quotes
Dash3 == -4

\* float(x.replace(',', '')) if x and x != '---' else None
TpexNum(f) == IF f = Dash3 THEN NoneNum ELSE f

\* the dailyQuotes table of one day: one row per quote of that day
TpexDayResponse(feed, stock_code, day) ==
    LET RECURSIVE go(_)
        go(k) ==
            IF k > Len(feed) THEN <<>>
            ELSE (IF feed[k].date = day
                  THEN << [code |-> stock_code, close |-> feed[k].close,
                           open |-> feed[k].open, high |-> feed[k].high,
                           low |-> feed[k].low, vol |-> feed[k].vol] >>
                  ELSE <<>>) \o go(k + 1)
    IN  go(1)

\* lines 669-695: the first row of the target code with a close is appended
RECURSIVE TpexPickRow(_, _, _)
TpexPickRow(stock_code, table_data, day) ==
    IF table_data = <<>> THEN <<>>
    ELSE LET row == Head(table_data)
         IN  IF row.code = stock_code /\ TpexNum(row.close) # NoneNum
             THEN << [ticker |-> [code |-> stock_code, suffix |-> "TWO"], Date |-> day,
                      Open |-> TpexNum(row.open), High |-> TpexNum(row.high),
                      Low |-> TpexNum(row.low), Close |-> TpexNum(row.close),
                      Volume |-> (IF row.vol = Dash3 THEN 0 ELSE row.vol)] >>
             ELSE TpexPickRow(stock_code, Tail(table_data), day)

\* fetch_tpex_stock_data, lines 623-736, every day answered with HTTP 200
RECURSIVE TpexDayLoop(_, _, _, _, _)
TpexDayLoop(stock_code, cur, e, feed, acc) ==
    IF ~DateLE(cur, e) THEN [ret |-> "list", rows |-> SortByDate(acc)]
    ELSE TpexDayLoop(stock_code, AddDay(cur), e, feed,
                     acc \o TpexPickRow(stock_code,
                                        TpexDayResponse(feed, stock_code, cur), cur))

fetch_tpex_stock_data(stock_code, start, end, feed) ==
    TpexDayLoop(stock_code, start, end, feed, <<>>)

\* fetch_twii_direct, lines 738-774: the last year's history, kept whole when
\* the latest close is within [1000, 30000], else an empty frame
TwiiLatestOk(latest_price) == ~(latest_price > PriceLimit \/ latest_price < 1000)

fetch_twii_direct(feed) ==
    LET RECURSIVE cols(_)
        cols(k) ==
            IF k > Len(feed) THEN <<>>
            ELSE << [date |-> feed[k].date, open_price |-> feed[k].open,
                     high_price |-> feed[k].high, low_price |-> feed[k].low,
                     close_price |-> feed[k].close, volume |-> feed[k].vol] >>
                 \o cols(k + 1)
    IN  IF feed = <<>> THEN <<>>
        ELSE IF ~TwiiLatestOk(feed[Len(feed)].close) THEN <<>>
        ELSE cols(1)

\* lines 937-961: rows of the frame inside the window with sane prices
RECURSIVE YfRows(_, _, _, _)
YfRows(symbol, df, start, end) ==
    IF df = <<>> THEN <<>>
    ELSE LET row == Head(df)
         IN  (IF DateLE(start, row.date) /\ DateLE(row.date, end)
                 /\ row.open < PriceLimit /\ row.high < PriceLimit
                 /\ row.low < PriceLimit /\ row.close < PriceLimit
              THEN << [ticker |-> symbol, Date |-> row.date, Open |-> row.open,
                       High |-> row.high, Low |-> row.low, Close |-> row.close,
                       Volume |-> row.vol] >>
              ELSE <<>>) \o YfRows(symbol, Tail(df), start, end)

\* fetch_yfinance_data, lines 892-975: the first retrieval strategy with a
\* non-empty frame supplies df; a non-empty result is returned, else None
fetch_yfinance_data(symbol, start, end, feed) ==
    LET result == YfRows(symbol, feed, start, end)
    IN  IF result # <<>> THEN [ret |-> "list", rows |-> result]
        ELSE [ret |-> "None", rows |-> <<>>]

-----------------------------------------------------------------------------
(* fetch_tpex_stock_data, step by step (server.py 623-736). The fetcher's  *)
(* locals are kept in the variables of the exchange fetcher's steps;       *)
(* tw_rounds holds one record per day round: the day, the requests made    *)
(* and the table a 200 response carried.                                   *)

TpDates == { <<2023, 12, 30>>, <<2023, 12, 31>>, <<2024, 1, 1>> }

TpStockCode == "6488"

\* a row of the dailyQuotes table: code, close, open, high, low, volume
TpRow(code, c) ==
    [code |-> code, close |-> c, open |-> 50, high |-> 55, low |-> 45, vol |-> 1000]

\* the tables a 200 response may carry
TpexBodies ==
    { <<>>,
      << TpRow("6488", 50) >>,
      << TpRow("64880", 70), TpRow("6488", 50), TpRow("6488", 60) >>,
      << TpRow("6488", Dash3), TpRow("6488", 60) >> }

TpexNextDateSkip(cur) == AddDay(AddDay(cur))

\* line 723: current_date + timedelta(days=1)
TpexNextDate(cur) == AddDay(cur)

\* one more request in the current day's round
TpexRequested(rounds) ==
    [rounds EXCEPT ![Len(rounds)].attempts = @ + 1]

\* lines 627-631
TpexCall ==
    /\ tw_pc = "idle"
    /\ \E s \in TpDates, e \in TpDates :
        /\ start_dt' = s
        /\ end_dt' = e
        /\ current_date' = s
    /\ tw_result' = <<>>
    /\ tw_rounds' = <<>>
    /\ retry_count' = 0
    /\ tw_ret' = "pending"
    /\ tw_pc' = "loop"
    /\ UNCHANGED <<upvars, rtvars, ccvars>>

\* line 634 (loop test), 635-653 (a day's round begins), 727-731 (return)
TpexLoop ==
    /\ tw_pc = "loop"
    /\ IF DateLE(current_date, end_dt)
       THEN /\ tw_rounds' = Append(tw_rounds, [day |-> current_date, attempts |-> 0,
                                               table_data |-> <<>>])
            /\ retry_count' = 0
            /\ tw_pc' = "request"
            /\ UNCHANGED <<tw_result, tw_ret>>
       ELSE /\ tw_result' = SortByDate(tw_result)
            /\ tw_ret' = "list"
            /\ tw_pc' = "done"
            /\ UNCHANGED <<tw_rounds, retry_count>>
    /\ UNCHANGED <<start_dt, end_dt, current_date>>
    /\ UNCHANGED <<upvars, rtvars, ccvars>>

\* lines 655-697: HTTP 200, the table is searched for the target code
TpexRespond200 ==
    /\ tw_pc = "request"
    /\ retry_count < max_retries
    /\ \E table_data \in TpexBodies :
        /\ tw_result' = tw_result \o TpexPickRow(TpStockCode, table_data, current_date)
        /\ tw_rounds' = [TpexRequested(tw_rounds) EXCEPT
                            ![Len(tw_rounds)].table_data = table_data]
    /\ tw_pc' = "advance"
    /\ UNCHANGED <<start_dt, end_dt, current_date, retry_count, tw_ret>>
    /\ UNCHANGED <<upvars, rtvars, ccvars>>

\* lines 660-662, 712-720: HTTP 200 with a body that is not JSON; success
\* is already set, the handler counts the failure and the round ends
TpexMalformedBody ==
    /\ tw_pc = "request"
    /\ retry_count < max_retries
    /\ retry_count' = retry_count + 1
    /\ tw_rounds' = TpexRequested(tw_rounds)
    /\ tw_pc' = "advance"
    /\ UNCHANGED <<start_dt, end_dt, current_date, tw_result, tw_ret>>
    /\ UNCHANGED <<upvars, rtvars, ccvars>>

\* lines 703-720: a timeout or a request error: count, wait, retry or give up
TpexRetryable ==
    /\ tw_pc = "request"
    /\ retry_count < max_retries
    /\ retry_count' = retry_count + 1
    /\ tw_rounds' = TpexRequested(tw_rounds)
    /\ tw_pc' = IF retry_count + 1 < max_retries THEN "request" ELSE "advance"
    /\ UNCHANGED <<start_dt, end_dt, current_date, tw_result, tw_ret>>
    /\ UNCHANGED <<upvars, rtvars, ccvars>>

\* lines 699-701: any other status ends the day's round
TpexAbortDay ==
    /\ tw_pc = "request"
    /\ retry_count < max_retries
    /\ tw_rounds' = TpexRequested(tw_rounds)
    /\ tw_pc' = "advance"
    /\ UNCHANGED <<start_dt, end_dt, current_date, retry_count, tw_result, tw_ret>>
    /\ UNCHANGED <<upvars, rtvars, ccvars>>

\* lines 722-726
TpexAdvance ==
    /\ tw_pc = "advance"
    /\ current_date' = TpexNextDate(current_date)
    /\ tw_pc' = "loop"
    /\ UNCHANGED <<start_dt, end_dt, retry_count, tw_result, tw_rounds, tw_ret>>
    /\ UNCHANGED <<upvars, rtvars, ccvars>>

TpexNext ==
    \/ TpexCall
    \/ TpexLoop
    \/ TpexRespond200
    \/ TpexMalformedBody
    \/ TpexRetryable
    \/ TpexAbortDay
    \/ TpexAdvance

SpecTpex == TwseInit /\ [][TpexNext]_vars

\* every step of the fetcher is a step of the one thread that runs it: a
\* request is answered or times out (timeout=15), a sleep ends
SpecTpexLive == SpecTpex /\ WF_vars(TpexNext)

-----------------------------------------------------------------------------
(* Fetch orchestrator: fetch_stock_data, lines 397-445                     *)

\* dt - timedelta(days=1)
SubDay(dt) ==
    IF dt[3] > 1 THEN <<dt[1], dt[2], dt[3] - 1>>
    ELSE IF dt[2] > 1 THEN <<dt[1], dt[2] - 1, DaysInMonth(dt[1], dt[2] - 1)>>
    ELSE <<dt[1] - 1, 12, 31>>

RECURSIVE SubDays(_, _)
SubDays(dt, n) == IF n = 0 THEN dt ELSE SubDays(SubDay(dt), n - 1)

DefaultWindowDays == 30

\* pd.DataFrame(list of dicts): a None among the numbers of a column is NaN
ToDataFrame(rows) ==
    LET nan(x) == IF x = NoneNum THEN NaNNum ELSE x
    IN  [k \in 1..Len(rows) |->
            [rows[k] EXCEPT !.Open = nan(@), !.High = nan(@), !.Low = nan(@)]]

\* one fetcher call: its name, its window, what it returned ("list", "None"
\* or "DataFrame") and the rows of that
Call(fn, s, e, ret, got) == [fn |-> fn, start |-> s, end |-> e, ret |-> ret, rows |-> got]

\* what the primary source and the fallback provider hold for the symbol:
\* up.feed, the primary source answering nothing when up.pdown
PrimaryFeed(up) == IF up.pdown THEN <<>> ELSE up.feed

\* the primary source answers HTTP 200 with a body that is not JSON (up.perr).
\* Exchange fetcher: response.json() at line 509 is outside the retry loop's
\* try, so the first month's round ends in the outer handler, lines 563-565.
TwseResult(stock_code, s, e, up) ==
    IF up.perr /\ DateLE(s, e) THEN [ret |-> "None", rows |-> <<>>]
    ELSE fetch_twse_stock_data(stock_code, s, e, PrimaryFeed(up))

\* Over-the-counter fetcher: response.json() at line 662 is inside the retry
\* loop's try and success is already set, so the handler at 712-720 ends the
\* day's round and every day is skipped.
TpexResult(stock_code, s, e, up) ==
    fetch_tpex_stock_data(stock_code, s, e, IF up.perr THEN <<>> ELSE PrimaryFeed(up))

\* lines 420-428: the primary fetcher of a non-index symbol
UsesTpex(cache, symbol) == symbol.suffix = "TWO" \/ is_otc_stock(cache, symbol.code)

PrimaryAcceptedNever(result) == FALSE

\* lines 430-441
PrimaryAccepted(result) == result.ret = "list" /\ result.rows # <<>>

\* what fetch_stock_data returns: [kind |-> "DataFrame" | "list" | "None",
\* rows, calls], calls being the fetcher calls it made

ReturnTwiiThenFallback(s, e, df) ==
    [kind |-> "DataFrame", rows |-> df,
     calls |-> IF df = <<>>
               THEN <<Call("twii", s, e, "DataFrame", df), Call("yfinance", s, e, "None", df)>>
               ELSE <<Call("twii", s, e, "DataFrame", df)>>]

\* lines 408-410: the index
ReturnTwii(s, e, df) ==
    [kind |-> "DataFrame", rows |-> df, calls |-> <<Call("twii", s, e, "DataFrame", df)>>]

\* lines 443-445: the fallback provider's result is returned
ReturnFallback(first, s, e, yf) ==
    [kind |-> yf.ret, rows |-> yf.rows,
     calls |-> <<first, Call("yfinance", s, e, yf.ret, yf.rows)>>]

ReturnPrimaryOrNoneOnError(fn, symbol, s, e, up, result) ==
    IF PrimaryAccepted(result)
    THEN [kind |-> "DataFrame", rows |-> ToDataFrame(result.rows),
          calls |-> <<Call(fn, s, e, result.ret, result.rows)>>]
    ELSE IF result.ret = "None"
    THEN [kind |-> "None", rows |-> <<>>, calls |-> <<Call(fn, s, e, "None", <<>>)>>]
    ELSE ReturnFallback(Call(fn, s, e, result.ret, result.rows), s, e,
                        fetch_yfinance_data(symbol, s, e, up.feed))

\* lines 430-445: the primary fetcher's result, or else the fallback's
ReturnPrimaryOrFallback(fn, symbol, s, e, up, result) ==
    IF PrimaryAccepted(result)
    THEN [kind |-> "DataFrame", rows |-> ToDataFrame(result.rows),
          calls |-> <<Call(fn, s, e, result.ret, result.rows)>>]
    ELSE ReturnFallback(Call(fn, s, e, result.ret, result.rows), s, e,
                        fetch_yfinance_data(symbol, s, e, up.feed))

\* lines 408-445, start and end defaulted
FetchWindow(cache, symbol, s, e, up) ==
    IF symbol = TWII THEN ReturnTwii(s, e, fetch_twii_direct(up.feed))
    ELSE IF UsesTpex(cache, symbol)
    THEN ReturnPrimaryOrFallback("tpex", symbol, s, e, up,
             TpexResult(symbol.code, s, e, up))
    ELSE ReturnPrimaryOrFallback("twse", symbol, s, e, up,
             TwseResult(symbol.code, s, e, up))

fetch_stock_data(cache, symbol, start_arg, end_arg, up, today) ==
    FetchWindow(cache, symbol,
                IF start_arg = NoDate THEN SubDays(today, DefaultWindowDays) ELSE start_arg,
                IF end_arg = NoDate THEN today ELSE end_arg, up)

-----------------------------------------------------------------------------
(* Return calculator: calculate_returns, daily frequency, lines 977-1013   *)

\* a float: a finite value in millionths, an infinity or a NaN
Num(v) == [k |-> "num", v |-> v]
Inf == [k |-> "inf", v |-> 0]
NaN == [k |-> "nan", v |-> 0]

RECURSIVE GCD(_, _)
GCD(a, b) == IF b = 0 THEN a ELSE GCD(b, a % b)

\* round(n / d, 6) in millionths, for n >= 0 and d > 0
Round6Pos(n, d) ==
    LET q0 == n \div d
        r0 == n % d
        q1 == (r0 * 1000) \div d
        r1 == (r0 * 1000) % d
        q2 == (r1 * 1000) \div d
        r2 == (r1 * 1000) % d
    IN  q0 * 1000000 + q1 * 1000 + q2 + (IF 2 * r2 >= d THEN 1 ELSE 0)

Round6(n, d) == IF n >= 0 THEN Round6Pos(n, d) ELSE 0 - Round6Pos(0 - n, d)

\* the close column: 'close_price' if present, else 'Close'
RowClose(row) == IF "close_price" \in DOMAIN row THEN row.close_price ELSE row.Close

RowTicker(row) == IF "ticker" \in DOMAIN row THEN row.ticker ELSE TWII

RatioMulLast(a, b) == b

\* a ratio <<n, d>> in lowest terms, d = 0 for an infinity, <<0, 0>> for NaN
RatioMul(a, b) ==
    IF (a[1] = 0 /\ a[2] = 0) \/ (b[1] = 0 /\ b[2] = 0) THEN <<0, 0>>
    ELSE IF (a[2] = 0 /\ b[1] = 0) \/ (b[2] = 0 /\ a[1] = 0) THEN <<0, 0>>
    ELSE IF a[2] = 0 \/ b[2] = 0 THEN <<1, 0>>
    ELSE LET g1 == GCD(a[1], b[2])
             g2 == GCD(b[1], a[2])
             h1 == IF g1 = 0 THEN 1 ELSE g1
             h2 == IF g2 = 0 THEN 1 ELSE g2
         IN  <<(a[1] \div h1) * (b[1] \div h2), (a[2] \div h2) * (b[2] \div h1)>>

\* x - 1 of a ratio x, rounded to 6 places
RatioMinusOne(x) ==
    IF x[1] = 0 /\ x[2] = 0 THEN NaN
    ELSE IF x[2] = 0 THEN Inf
    ELSE Num(Round6(x[1] - x[2], x[2]))

GrowthRatioInverse(prev, cur) ==
    IF cur = 0 THEN (IF prev = 0 THEN <<0, 0>> ELSE <<1, 0>>) ELSE <<prev, cur>>

\* close_t / close_{t-1}: pct_change() + 1
GrowthRatio(prev, cur) ==
    IF prev = 0 THEN (IF cur = 0 THEN <<0, 0>> ELSE <<1, 0>>) ELSE <<cur, prev>>

\* lines 1001-1013 over the sorted frame: rows 2..n, cumprod skipping NaN
RECURSIVE DailyLoop(_, _, _)
DailyLoop(df, t, cum) ==
    IF t > Len(df) THEN <<>>
    ELSE LET g == GrowthRatio(RowClose(df[t - 1]), RowClose(df[t]))
             isnan == g = <<0, 0>>
             cum2 == IF isnan THEN cum ELSE RatioMul(cum, g)
             c == RatioMinusOne(cum2)
         IN  (IF isnan THEN <<>>
              ELSE << [ticker |-> RowTicker(df[t]), Date |-> RowDate(df[t]),
                       frequency |-> "daily", return |-> RatioMinusOne(g),
                       cumulative_return |-> IF c = NaN THEN Num(0) ELSE c] >>)
             \o DailyLoop(df, t + 1, cum2)

calculate_returns_daily(price_data) ==
    IF price_data.kind = "None" \/ price_data.rows = <<>> THEN <<>>
    ELSE LET df == SortByDate(price_data.rows)
         IN  IF Len(df) < 2 THEN <<>> ELSE DailyLoop(df, 2, <<1, 1>>)

-----------------------------------------------------------------------------
(* Weekly and monthly returns: calculate_returns, lines 1015-1039          *)

\* days from 1 January 2020 (a Wednesday) to 1 January of y
RECURSIVE DaysBeforeYear(_)
DaysBeforeYear(y) ==
    IF y <= 2020 THEN 0
    ELSE DaysBeforeYear(y - 1) + (IF IsLeap(y - 1) THEN 366 ELSE 365)

RECURSIVE DaysBeforeMonth(_, _)
DaysBeforeMonth(y, m) ==
    IF m <= 1 THEN 0 ELSE DaysBeforeMonth(y, m - 1) + DaysInMonth(y, m - 1)

\* timetuple().tm_yday
DayOfYear(dt) == DaysBeforeMonth(dt[1], dt[2]) + dt[3]

\* date.weekday(): Monday is 0, Sunday is 6
Weekday(dt) == (DaysBeforeYear(dt[1]) + DayOfYear(dt) + 1) % 7

\* date.isocalendar()[1]: the number, within its year, of the Thursday of
\* the Monday-to-Sunday week of dt
IsoWeek(dt) ==
    LET wd == Weekday(dt)
        thursday == IF wd <= 3 THEN AddDays(dt, 3 - wd) ELSE SubDays(dt, wd - 3)
    IN  ((DayOfYear(thursday) - 1) \div 7) + 1

\* resample('W'): the label of dt's bin is the Sunday that ends its week
WeekEnd(dt) == AddDays(dt, 6 - Weekday(dt))

\* the bin before the one labelled p
PrevWeekEnd(p) == SubDays(p, 7)

\* resample('ME'): the label of dt's bin is the last day of its month
MonthEnd(dt) == <<dt[1], dt[2], DaysInMonth(dt[1], dt[2])>>

PrevMonthEnd(p) == IF p[2] = 1 THEN <<p[1] - 1, 12, 31>> ELSE MonthEnd(<<p[1], p[2] - 1, 1>>)

\* the labels of the bins holding a row, ascending
RECURSIVE SeqOfDates(_)
SeqOfDates(S) ==
    IF S = {} THEN <<>>
    ELSE LET m == CHOOSE x \in S : \A y \in S : DateLE(x, y)
         IN  <<m>> \o SeqOfDates(S \ {m})

\* the bin label of a date and the label before a label, per frequency
PeriodEnd(frequency, dt) == IF frequency = "weekly" THEN WeekEnd(dt) ELSE MonthEnd(dt)

PrevEnd(frequency, p) ==
    IF frequency = "weekly" THEN PrevWeekEnd(p) ELSE PrevMonthEnd(p)

\* .last() of a bin of the sorted frame: the close of its last row
LastClose(df, frequency, p) ==
    LET ks == { k \in 1..Len(df) : PeriodEnd(frequency, RowDate(df[k])) = p }
    IN  RowClose(df[CHOOSE k \in ks : \A j \in ks : j <= k])

\* pct_change(fill_method=None).dropna() over the bins, with the cumulative
\* product of the kept entries: a bin has a return when the bin before it
\* holds a row and the ratio is not NaN
RECURSIVE PeriodLoop(_, _, _, _, _, _)
PeriodLoop(df, frequency, labels, bins, t, cum) ==
    IF t > Len(labels) THEN <<>>
    ELSE LET p == labels[t]
             g == IF PrevEnd(frequency, p) \in bins
                  THEN GrowthRatio(LastClose(df, frequency, PrevEnd(frequency, p)),
                                   LastClose(df, frequency, p))
                  ELSE <<0, 0>>
             isnan == g = <<0, 0>>
             cum2 == IF isnan THEN cum ELSE RatioMul(cum, g)
         IN  (IF isnan THEN <<>>
              ELSE << [ticker |-> RowTicker(df[1]), Date |-> p, frequency |-> frequency,
                       return |-> RatioMinusOne(g),
                       cumulative_return |-> RatioMinusOne(cum2)] >>)
             \o PeriodLoop(df, frequency, labels, bins, t + 1, cum2)

PeriodReturns(df, frequency) ==
    LET bins == { PeriodEnd(frequency, RowDate(df[k])) : k \in 1..Len(df) }
    IN  PeriodLoop(df, frequency, SeqOfDates(bins), bins, 1, <<1, 1>>)

calculate_returns_weekly(price_data) ==
    IF price_data.kind = "None" \/ Len(price_data.rows) < 2 THEN <<>>
    ELSE PeriodReturns(SortByDate(price_data.rows), "weekly")

calculate_returns_monthly(price_data) ==
    IF price_data.kind = "None" \/ Len(price_data.rows) < 2 THEN <<>>
    ELSE PeriodReturns(SortByDate(price_data.rows), "monthly")

-----------------------------------------------------------------------------
(* The tuples prepared for stock_returns: update_stocks, lines 1664-1709   *)

\* Python's None in a float position
PyNone == [k |-> "none", v |-> 0]

\* lines 1670-1678: the first weekly return whose label has the week number
\* and the calendar year of the daily date
RECURSIVE WeeklyFor(_, _)
WeeklyFor(daily_date, weekly) ==
    IF weekly = <<>> THEN PyNone
    ELSE IF IsoWeek(daily_date) = IsoWeek(Head(weekly).Date)
            /\ daily_date[1] = Head(weekly).Date[1]
    THEN Head(weekly).return
    ELSE WeeklyFor(daily_date, Tail(weekly))

\* lines 1680-1688: the first monthly return of the date's year and month
RECURSIVE MonthlyFor(_, _)
MonthlyFor(daily_date, monthly) ==
    IF monthly = <<>> THEN PyNone
    ELSE IF daily_date[1] = Head(monthly).Date[1] /\ daily_date[2] = Head(monthly).Date[2]
    THEN Head(monthly).return
    ELSE MonthlyFor(daily_date, Tail(monthly))

\* lines 1693-1700: an infinity or a NaN becomes None
NoneIfNotFinite(x) == IF x.k \in {"inf", "nan"} THEN PyNone ELSE x

\* lines 1664-1709: one tuple per daily return record
PrepareReturnRows(symbol, daily, weekly, monthly) ==
    [k \in 1..Len(daily) |->
        [symbol |-> symbol, date |-> daily[k].Date,
         daily_return |-> NoneIfNotFinite(daily[k].return),
         weekly_return |-> NoneIfNotFinite(WeeklyFor(daily[k].Date, weekly)),
         monthly_return |-> NoneIfNotFinite(MonthlyFor(daily[k].Date, monthly)),
         cumulative_return |-> NoneIfNotFinite(daily[k].cumulative_return)]]

-----------------------------------------------------------------------------
(* Incremental store: the tables and the statements update_stocks runs     *)

\* a or b, for numbers (None and 0 are falsy, NaN is not) and for dates
PyOr(a, b) == IF a = NoneNum \/ a = 0 THEN b ELSE a
PyOrDate(a, b) == IF a = NoDate THEN b ELSE a

\* dict.get(key): the value, or None
GetNum(pr, key) == IF key \in DOMAIN pr THEN pr[key] ELSE NoneNum
GetDate(pr, key) == IF key \in DOMAIN pr THEN pr[key] ELSE NoDate

\* lines 1536-1547: one tuple of the multi-row insert
ValueOf(symbol, pr) ==
    [symbol |-> symbol,
     date |-> PyOrDate(GetDate(pr, "date"), GetDate(pr, "Date")),
     open_price |-> PyOr(GetNum(pr, "open_price"), GetNum(pr, "Open")),
     high_price |-> PyOr(GetNum(pr, "high_price"), GetNum(pr, "High")),
     low_price |-> PyOr(GetNum(pr, "low_price"), GetNum(pr, "Low")),
     close_price |-> PyOr(GetNum(pr, "close_price"), GetNum(pr, "Close")),
     volume |-> PyOr(GetNum(pr, "volume"), GetNum(pr, "Volume"))]

ValuesOf(symbol, price_records) ==
    [k \in 1..Len(price_records) |-> ValueOf(symbol, price_records[k])]

\* the unique constraint of stock_prices
KeyOf(r) == <<r.symbol, r.date>>

UpsertRowKeepOld(table, v) ==
    IF \E r \in table : KeyOf(r) = KeyOf(v) THEN table ELSE table \cup {v}

\* a plain INSERT without the conflict clause
UpsertRowAppend(table, v) == table \cup {v}

\* ON CONFLICT (symbol, date) DO UPDATE SET ... = EXCLUDED...., one row
UpsertRow(table, v) ==
    IF \E r \in table : KeyOf(r) = KeyOf(v)
    THEN { IF KeyOf(r) = KeyOf(v)
           THEN [r EXCEPT !.open_price = v.open_price, !.high_price = v.high_price,
                          !.low_price = v.low_price, !.close_price = v.close_price,
                          !.volume = v.volume]
           ELSE r : r \in table }
    ELSE table \cup {v}

\* one INSERT ... ON CONFLICT DO UPDATE statement: it fails when two of its
\* rows share a key (the command cannot affect a row a second time)
StatementFails(page) ==
    \E j \in 1..Len(page), k \in 1..Len(page) : j < k /\ KeyOf(page[j]) = KeyOf(page[k])

RECURSIVE ApplyRows(_, _)
ApplyRows(table, page) ==
    IF page = <<>> THEN table ELSE ApplyRows(UpsertRow(table, Head(page)), Tail(page))

PricePageSize == 1000

\* execute_values(cursor, sql, values, page_size): one statement per page;
\* [ok |-> FALSE] when a statement raises
RECURSIVE execute_values(_, _, _)
execute_values(table, values, page_size) ==
    IF values = <<>> THEN [ok |-> TRUE, table |-> table]
    ELSE LET n == IF Len(values) < page_size THEN Len(values) ELSE page_size
             page == SubSeq(values, 1, n)
         IN  IF StatementFails(page) THEN [ok |-> FALSE, table |-> table]
             ELSE execute_values(ApplyRows(table, page),
                                 SubSeq(values, n + 1, Len(values)), page_size)

CountExistingSkipped(table, symbol, values) == 0

\* lines 1557-1571: SELECT date ... WHERE symbol = %s AND date IN (...),
\* then the number of distinct dates found
CountExisting(table, symbol, values) ==
    Cardinality({ r.date : r \in { x \in table : x.symbol = symbol
                        /\ \E k \in 1..Len(values) : values[k].date = x.date } })

\* line 1597: max(len(values) - duplicate_count, 0)
NewInsertCountAll(n, duplicate_count) == n

NewInsertCount(n, duplicate_count) ==
    IF n - duplicate_count > 0 THEN n - duplicate_count ELSE 0

\* lines 1489-1497: SELECT symbol, MAX(date) ... GROUP BY symbol
MaxDate(table, symbol) ==
    LET ds == { r.date : r \in { x \in table : x.symbol = symbol } }
    IN  IF ds = {} THEN NoDate ELSE CHOOSE d \in ds : \A o \in ds : DateLE(o, d)

\* lines 1508-1517
EffectiveStartAlwaysNext(start, end, latest_dt) ==
    IF latest_dt = NoDate THEN start
    ELSE IF DateLT(start, AddDay(latest_dt)) THEN AddDay(latest_dt) ELSE start

EffectiveStart(start, end, latest_dt) ==
    IF latest_dt = NoDate THEN start
    ELSE LET next_day == AddDay(latest_dt)
         IN  IF (end = NoDate \/ DateLE(next_day, end)) /\ DateLT(start, next_day)
             THEN next_day
             ELSE start

-----------------------------------------------------------------------------
(* update_stocks, lines 1404-1780                                          *)

\* latest_price_date_map.get(symbol)
LatestOf(map, symbol) == IF symbol \in DOMAIN map THEN map[symbol] ELSE NoDate

\* lines 1489-1497: one entry per requested symbol that has rows
LatestPriceDateMap(table, syms) ==
    [s \in { syms[k] : k \in { j \in 1..Len(syms) : MaxDate(table, syms[j]) # NoDate } }
        |-> MaxDate(table, s)]

\* per key of a statement's rows, the last row given for it
LastOfBatch(values) ==
    { values[k] : k \in { j \in 1..Len(values) :
                            \A n \in (j + 1)..Len(values) : KeyOf(values[n]) # KeyOf(values[j]) } }

\* One pass of the loop body, lines 1503-1753, for one symbol, on the committed
\* table, with what the sources hold (up). Exceptions are the "errors" outcome:
\*   "db"      a statement failed, or ran in the aborted transaction (1586-1595)
\*   "unbound" price_data read while unassigned (1616, update_prices false)
\*   "name"    return_values read while undefined (1702 caught, 1714 not)
\* Lines 1715-1747 come after the read of return_values and are never reached.

ReturnsRaiseWithoutData(upd_prices, upd_returns, price_data) ==
    IF ~upd_returns THEN "no" ELSE IF ~upd_prices THEN "unbound" ELSE "name"

\* lines 1616-1714: "no", or the exception the returns part raises
ReturnsRaise(upd_prices, upd_returns, price_data) ==
    IF ~upd_returns THEN "no"
    ELSE IF ~upd_prices THEN "unbound"
    ELSE IF price_data.kind # "None" /\ Len(price_data.rows) > 1
            /\ calculate_returns_daily(price_data) # <<>> THEN "name"
    ELSE "no"

\* lines 1521-1524
NonEmpty(price_data) == price_data.kind # "None" /\ price_data.rows # <<>>

\* lines 1597-1753: the counts, and how the iteration ends
IterationEnd(table, symbol, end, upd_prices, latest_dt, failed, eff, price_data, values, duplicate_count, ev, raised) ==
    LET nonempty == values # <<>>
        wrote == nonempty /\ ~failed /\ ev.ok
        db_raises == nonempty /\ ~wrote
    IN  [symbol |-> symbol, ran |-> TRUE, fetched |-> upd_prices, latest_dt |-> latest_dt,
         effective_start |-> IF upd_prices THEN eff ELSE NoDate,
         end_arg |-> end, kind |-> price_data.kind, rows |-> price_data.rows,
         calls |-> price_data.calls, values |-> values, before |-> table,
         wrote |-> wrote,
         price_records |-> IF ~upd_prices \/ db_raises THEN NoneNum
                           ELSE IF nonempty
                                THEN NewInsertCount(Len(values), duplicate_count)
                                ELSE 0,
         duplicate_records |-> IF nonempty /\ ~db_raises THEN duplicate_count ELSE NoneNum,
         outcome |-> IF db_raises THEN "db" ELSE IF raised = "no" THEN "results" ELSE raised,
         status |-> IF upd_prices /\ ~nonempty THEN "partial" ELSE "success",
         table |-> IF wrote THEN ev.table ELSE table,
         failed |-> failed \/ db_raises]

\* lines 1549-1595: the duplicate count and the upsert of the batch
PriceUpsert(table, symbol, end, upd_prices, upd_returns, latest_dt, failed, eff, price_data, values) ==
    IterationEnd(table, symbol, end, upd_prices, latest_dt, failed, eff, price_data, values,
                 IF failed THEN 0 ELSE CountExisting(table, symbol, values),
                 execute_values(table, values, PricePageSize),
                 ReturnsRaise(upd_prices, upd_returns, price_data))

\* lines 1521-1547: the fetched rows as the tuples to insert
PriceValues(table, symbol, end, upd_prices, upd_returns, latest_dt, failed, eff, price_data) ==
    PriceUpsert(table, symbol, end, upd_prices, upd_returns, latest_dt, failed, eff, price_data,
                IF NonEmpty(price_data) THEN ValuesOf(symbol, price_data.rows) ELSE <<>>)

\* line 1520: fetch from the effective start, when prices are asked for
PriceFetch(table, cache, symbol, end, upd_prices, upd_returns, latest_dt, failed, up, today, eff) ==
    PriceValues(table, symbol, end, upd_prices, upd_returns, latest_dt, failed, eff,
                IF upd_prices THEN fetch_stock_data(cache, symbol, eff, end, up, today)
                ELSE [kind |-> "None", rows |-> <<>>, calls |-> <<>>])

UpdateIteration(table, cache, symbol, start, end, upd_prices, upd_returns, latest_dt, failed, up, today) ==
    PriceFetch(table, cache, symbol, end, upd_prices, upd_returns, latest_dt, failed, up, today,
               EffectiveStart(start, end, latest_dt))

\* the entry appended to results at line 1749
ResultOf(r) ==
    [symbol |-> r.symbol, status |-> r.status, price_records |-> r.price_records,
     duplicate_records |-> r.duplicate_records, return_records |-> NoneNum]

\* line 1749, reached when nothing was raised
ResultsAfter(res, r) == IF r.outcome = "results" THEN Append(res, ResultOf(r)) ELSE res

ErrorsAfterSwallowed(errs, r) == errs

\* lines 1751-1752
ErrorsAfter(errs, r) ==
    IF r.outcome = "results" THEN errs
    ELSE Append(errs, [symbol |-> r.symbol, error |-> r.outcome])

\* the fields of an iteration kept as history, with what the provider held
ItOf(r, up) ==
    [symbol |-> r.symbol, ran |-> r.ran, fetched |-> r.fetched, latest_dt |-> r.latest_dt,
     effective_start |-> r.effective_start, end_arg |-> r.end_arg, kind |-> r.kind,
     rows |-> r.rows, calls |-> r.calls, values |-> r.values, before |-> r.before,
     wrote |-> r.wrote, price_records |-> r.price_records,
     duplicate_records |-> r.duplicate_records, outcome |-> r.outcome,
     held |-> up.feed]

-----------------------------------------------------------------------------
(* Requests and what the sources hold while they run                       *)

MaxRequests == 2
MaxBatch == 2

\* the windows a caller asks for: start not after the end, or not after today
\* when the end is omitted
Windows ==
    { w \in Days \X (Days \cup {NoDate}) :
        DateLE(w[1], IF w[2] = NoDate THEN Today ELSE w[2]) }

\* what the sources of one symbol hold during one iteration
Upstreams ==
    { u \in [feed : Feeds, pdown : BOOLEAN, perr : BOOLEAN] : ~(u.pdown /\ u.perr) }

\* request batches of distinct symbols
Batches ==
    { b \in UNION { [1..n -> Symbols] : n \in 1..MaxBatch } :
        \A j \in 1..Len(b), k \in 1..Len(b) : j # k => b[j] # b[k] }

BatchFeeds ==
    { <<>>,
      << Quote(<<2024, 2, 1>>, 1000, 1010, 990, 1000, 5000) >>,
      << Quote(<<2024, 2, 1>>, 1000, 1010, 990, 1000, 5000),
         Quote(<<2024, 2, 2>>, 1000, 1010, 990, 1000, 5000) >>,
      << Quote(<<2024, 2, 1>>, 1000, 1010, 990, 1000, 5000),
         Quote(<<2024, 2, 1>>, 1000, 1010, 990, 1000, 5000) >> }

BatchUpstreams == [feed : BatchFeeds, pdown : BOOLEAN, perr : {FALSE}]

\* the sources' contents that can matter to an iteration: none when no fetch
\* is made, and the index has no primary source to be down
Relevant(ups, symbol, upd_prices) ==
    IF ~upd_prices THEN { [feed |-> <<>>, pdown |-> FALSE, perr |-> FALSE] }
    ELSE IF symbol = TWII THEN { u \in ups : ~u.pdown /\ ~u.perr }
    ELSE ups

BatchWindows == { << <<2024, 2, 1>>, <<2024, 2, 2>> >>, << <<2024, 2, 1>>, NoDate >> }

\* lines 1416-1427, 1441-1442, 1445, 1482-1500: the request is read, a new
\* connection is opened and the latest persisted dates are queried
ReceiveRequest(wins) ==
    /\ \E w \in wins, up \in BOOLEAN, ur \in BOOLEAN :
        /\ start_date' = w[1]
        /\ end_date' = w[2]
        /\ update_prices' = up
        /\ update_returns' = ur
    /\ results' = <<>>
    /\ errors' = <<>>
    /\ tx_failed' = FALSE
    /\ latest_price_date_map' = LatestPriceDateMap(stock_prices, symbols)
    /\ i' = 1
    /\ it' = ItNone
    /\ nreq' = nreq + 1
    /\ pc' = "loop"
    /\ UNCHANGED <<symbols_cache, stock_prices, stock_returns, symbols, last_written>>
    /\ UNCHANGED <<twvars, rtvars, ccvars>>

\* the effects of one pass r of the loop body on the store and on the lists
Commit(r, up) ==
    /\ stock_prices' = r.table
    /\ tx_failed' = r.failed
    /\ last_written' =
         IF r.wrote
         THEN { x \in last_written :
                  \A k \in 1..Len(r.values) : KeyOf(r.values[k]) # KeyOf(x) }
                \cup LastOfBatch(r.values)
         ELSE last_written
    /\ results' = ResultsAfter(results, r)
    /\ errors' = ErrorsAfter(errors, r)
    /\ it' = ItOf(r, up)

\* lines 1502-1753: the loop body for symbols[i]
RunIteration(ups) ==
    /\ pc = "loop"
    /\ i <= Len(symbols)
    /\ \E up \in Relevant(ups, symbols[i], update_prices) :
        Commit(UpdateIteration(stock_prices, symbols_cache, symbols[i], start_date,
                               end_date, update_prices, update_returns,
                               LatestOf(latest_price_date_map, symbols[i]),
                               tx_failed, up, Today), up)
    /\ i' = i + 1
    /\ UNCHANGED <<symbols_cache, stock_returns, pc, symbols, start_date, end_date,
                   update_prices, update_returns, latest_price_date_map, nreq>>
    /\ UNCHANGED <<twvars, rtvars, ccvars>>

\* a further request for the same symbols, after the previous one was answered
StartUpdate ==
    /\ pc \in {"idle", "done"}
    /\ nreq < MaxRequests
    /\ ReceiveRequest(Windows)

ProcessSymbol == RunIteration(Upstreams)

\* lines 1755-1768: disconnect (the connection and the loop's locals are gone)
\* and answer
FinishUpdate ==
    /\ pc = "loop"
    /\ i > Len(symbols)
    /\ pc' = "done"
    /\ tx_failed' = FALSE
    /\ it' = ItNone
    /\ UNCHANGED <<symbols_cache, stock_prices, stock_returns, symbols, start_date,
                   end_date, update_prices, update_returns, i, results, errors,
                   latest_price_date_map, nreq, last_written>>
    /\ UNCHANGED <<twvars, rtvars, ccvars>>

\* update.py, lines 43-74: the tuples built from the downloaded frame (the
\* columns are named as in server.py's table)
LibRows(symbol, df) ==
    [k \in 1..Len(df) |->
        [symbol |-> symbol, date |-> df[k].date, open_price |-> df[k].open,
         high_price |-> df[k].high, low_price |-> df[k].low,
         close_price |-> df[k].close, volume |-> df[k].vol]]

\* storage.py, lines 44-73: one INSERT ... ON CONFLICT DO UPDATE for all rows
upsert_prices(table, rows) ==
    IF rows = <<>> THEN [ok |-> TRUE, table |-> table, affected |-> 0]
    ELSE IF StatementFails(rows) THEN [ok |-> FALSE, table |-> table, affected |-> 0]
    ELSE [ok |-> TRUE, table |-> ApplyRows(table, rows), affected |-> Len(rows)]

\* what one call of upsert_prices leaves in the store
LibCommit(rows, res) ==
    /\ stock_prices' = res.table
    /\ last_written' =
         IF res.ok
         THEN { x \in last_written : \A k \in 1..Len(rows) : KeyOf(rows[k]) # KeyOf(x) }
                \cup LastOfBatch(rows)
         ELSE last_written

\* update.py, lines 12-79: the serverless updater downloads the recent days of
\* its symbol and upserts them; a failed statement is answered with HTTP 500
LibUpdatePrices ==
    /\ pc = "lib"
    /\ \E df \in Feeds :
        LibCommit(LibRows(symbols[1], df),
                  upsert_prices(stock_prices, LibRows(symbols[1], df)))
    /\ UNCHANGED <<symbols_cache, stock_returns, pc, symbols, start_date, end_date,
                   update_prices, update_returns, i, results, errors,
                   latest_price_date_map, tx_failed, nreq, it>>
    /\ UNCHANGED <<twvars, rtvars, ccvars>>

\* a client that updates one symbol, again and again, through update_stocks or
\* (pc = "lib") through the serverless updater, each on its own store
Init ==
    /\ TwIdle
    /\ RtIdle
    /\ CcIdle
    /\ symbols_cache = <<>>
    /\ stock_prices = {}
    /\ stock_returns = {}
    /\ pc \in {"idle", "lib"}
    /\ symbols \in { <<s>> : s \in Symbols }
    /\ start_date = NoDate
    /\ end_date = NoDate
    /\ update_prices = TRUE
    /\ update_returns = TRUE
    /\ i = 1
    /\ results = <<>>
    /\ errors = <<>>
    /\ latest_price_date_map = <<>>
    /\ tx_failed = FALSE
    /\ nreq = 0
    /\ it = ItNone
    /\ last_written = {}

Next ==
    \/ StartUpdate
    \/ ProcessSymbol
    \/ FinishUpdate
    \/ LibUpdatePrices

Spec == Init /\ [][Next]_vars

\* one request for a batch of symbols on an empty store
StartBatch ==
    /\ pc = "idle"
    /\ ReceiveRequest(BatchWindows)

ProcessBatchSymbol == RunIteration(BatchUpstreams)

InitBatch ==
    /\ TwIdle
    /\ RtIdle
    /\ CcIdle
    /\ symbols_cache = <<>>
    /\ stock_prices = {}
    /\ stock_returns = {}
    /\ pc = "idle"
    /\ symbols \in Batches
    /\ start_date = NoDate
    /\ end_date = NoDate
    /\ update_prices = TRUE
    /\ update_returns = TRUE
    /\ i = 1
    /\ results = <<>>
    /\ errors = <<>>
    /\ latest_price_date_map = <<>>
    /\ tx_failed = FALSE
    /\ nreq = 0
    /\ it = ItNone
    /\ last_written = {}

NextBatch ==
    \/ StartBatch
    \/ ProcessBatchSymbol
    \/ FinishUpdate

SpecBatch == InitBatch /\ [][NextBatch]_vars

-----------------------------------------------------------------------------
(* The returns part on its own: calculate_returns for the three frequencies *)
(* and the preparation of the tuples, for one fetched series               *)

\* trading days around two turns of the year: Fri 2023-12-29, Tue 2024-01-02,
\* Fri 2024-12-27, Mon 2024-12-30, Tue 2024-12-31, Thu 2025-01-02 and
\* Mon 2025-01-06
RtDays ==
    { <<2023, 12, 29>>, <<2024, 1, 2>>, <<2024, 12, 27>>, <<2024, 12, 30>>,
      <<2024, 12, 31>>, <<2025, 1, 2>>, <<2025, 1, 6>> }

\* closes; 0 is what the exchange fetcher makes of "--"
RtCloses == {0, 99, 100, 110}

MaxSeries == 3

\* a fetched row of 2330.TW
RtRow(d, c) ==
    [ticker |-> Sym2330TW, Date |-> d, Open |-> c, High |-> c, Low |-> c, Close |-> c,
     Volume |-> 1000]

\* the series a fetch can return: up to MaxSeries rows, dates ascending
PriceSeries ==
    { f \in UNION { [1..n -> { RtRow(d, c) : d \in RtDays, c \in RtCloses }] :
                      n \in 0..MaxSeries } :
        \A k \in 1..(Len(f) - 1) : DateLT(f[k].Date, f[k + 1].Date) }

\* price_data as update_stocks holds it
PriceData == [kind |-> "list", rows |-> price_series, calls |-> <<>>]

\* lines 1621-1623
CalculateReturns ==
    /\ rt_pc = "fetched"
    /\ daily_returns' = calculate_returns_daily(PriceData)
    /\ weekly_returns' = calculate_returns_weekly(PriceData)
    /\ monthly_returns' = calculate_returns_monthly(PriceData)
    /\ rt_pc' = "calculated"
    /\ UNCHANGED <<price_series, prepared>>
    /\ UNCHANGED <<twvars, upvars, ccvars>>

\* lines 1634, 1664-1709
PrepareReturns ==
    /\ rt_pc = "calculated"
    /\ daily_returns # <<>>
    /\ prepared' = PrepareReturnRows(Sym2330TW, daily_returns, weekly_returns,
                                     monthly_returns)
    /\ rt_pc' = "prepared"
    /\ UNCHANGED <<price_series, daily_returns, weekly_returns, monthly_returns>>
    /\ UNCHANGED <<twvars, upvars, ccvars>>

InitReturns ==
    /\ TwIdle
    /\ UpIdle
    /\ CcIdle
    /\ rt_pc = "fetched"
    /\ price_series \in PriceSeries
    /\ daily_returns = <<>>
    /\ weekly_returns = <<>>
    /\ monthly_returns = <<>>
    /\ prepared = <<>>

NextReturns ==
    \/ CalculateReturns
    \/ PrepareReturns

SpecReturns == InitReturns /\ [][NextReturns]_vars

-----------------------------------------------------------------------------
(* Concurrent update_stocks requests: app.run(threaded=True), line 2060.   *)
(* Each request runs in its own thread on its own connection (1445); there *)
(* is no lock. Statements see what is committed when they run.             *)

Threads == {1, 2}

\* both requests: {symbols: ['2330.TW'], start_date: '2024-02-01',
\* end_date: '2024-02-02', update_returns: false}
ConcSymbol == Sym2330TW
ConcStart == <<2024, 2, 1>>
ConcEnd == <<2024, 2, 2>>

\* what the exchange holds when a request fetches
ConcFeeds ==
    { <<>>,
      << Quote(<<2024, 2, 1>>, 1000, 1010, 990, 1000, 5000) >>,
      << Quote(<<2024, 2, 1>>, 1000, 1020, 990, 1015, 6000) >>,
      << Quote(<<2024, 2, 2>>, 1000, 1010, 990, 1000, 5000) >>,
      << Quote(<<2024, 2, 1>>, 1000, 1010, 990, 1000, 5000),
         Quote(<<2024, 2, 2>>, 1000, 1010, 990, 1000, 5000) >> }

\* a request that has connected and not yet queried
ConcNew ==
    [pc |-> "connected", latest_dt |-> NoDate, effective_start |-> NoDate,
     values |-> <<>>, duplicate_count |-> 0, early |-> FALSE, wrote |-> FALSE,
     price_records |-> NoneNum, outcome |-> "none"]

\* the variables of update_stocks other than the table
upctl == <<symbols_cache, stock_returns, pc, symbols, start_date, end_date,
           update_prices, update_returns, i, results, errors, latest_price_date_map,
           tx_failed, nreq, it, last_written>>

\* some thread has committed a write
SomeoneWrote == \E t \in Threads : requests[t].wrote

\* lines 1484-1500: the latest persisted date of the symbol is read
ConcReadWatermark(t) ==
    /\ requests[t].pc = "connected"
    /\ requests' = [requests EXCEPT ![t].pc = "watermark",
                                    ![t].latest_dt = MaxDate(stock_prices, ConcSymbol)]
    /\ UNCHANGED <<stock_prices, upctl>>
    /\ UNCHANGED <<twvars, rtvars>>

\* lines 1508-1547: the window is derived from the watermark, the rows are
\* fetched and made into tuples
ConcFetch(t) ==
    /\ requests[t].pc = "watermark"
    /\ \E feed \in ConcFeeds :
        LET eff == EffectiveStart(ConcStart, ConcEnd, requests[t].latest_dt)
            price_data == fetch_stock_data(symbols_cache, ConcSymbol, eff, ConcEnd,
                                           [feed |-> feed, pdown |-> FALSE,
                                            perr |-> FALSE], Today)
        IN  requests' = [requests EXCEPT
                ![t].pc = "fetched",
                ![t].effective_start = eff,
                ![t].values = IF NonEmpty(price_data)
                              THEN ValuesOf(ConcSymbol, price_data.rows) ELSE <<>>]
    /\ UNCHANGED <<stock_prices, upctl>>
    /\ UNCHANGED <<twvars, rtvars>>

\* lines 1612-1614, 1749: nothing fetched, nothing written
ConcNothingToWrite(t) ==
    /\ requests[t].pc = "fetched"
    /\ requests[t].values = <<>>
    /\ requests' = [requests EXCEPT ![t].pc = "answered", ![t].price_records = 0,
                                    ![t].outcome = "results"]
    /\ UNCHANGED <<stock_prices, upctl>>
    /\ UNCHANGED <<twvars, rtvars>>

\* lines 1549-1573: the dates of the batch already in the table are counted
ConcCountExisting(t) ==
    /\ requests[t].pc = "fetched"
    /\ requests[t].values # <<>>
    /\ requests' = [requests EXCEPT
            ![t].pc = "counted",
            ![t].duplicate_count = CountExisting(stock_prices, ConcSymbol, requests[t].values),
            ![t].early = ~SomeoneWrote]
    /\ UNCHANGED <<stock_prices, upctl>>
    /\ UNCHANGED <<twvars, rtvars>>

\* what the upsert ev of thread t leaves in its request
ConcAfterUpsert(t, ev) ==
    [requests EXCEPT
        ![t].pc = "answered",
        ![t].wrote = ev.ok,
        ![t].price_records = IF ev.ok
                             THEN NewInsertCount(Len(requests[t].values),
                                                 requests[t].duplicate_count)
                             ELSE NoneNum,
        ![t].outcome = IF ev.ok THEN "results" ELSE "db"]

\* lines 1575-1600, 1749-1752: the batch is upserted and committed, the
\* counts are reported
ConcUpsert(t) ==
    /\ requests[t].pc = "counted"
    /\ stock_prices' = execute_values(stock_prices, requests[t].values, PricePageSize).table
    /\ requests' = ConcAfterUpsert(t, execute_values(stock_prices, requests[t].values,
                                                     PricePageSize))
    /\ UNCHANGED upctl
    /\ UNCHANGED <<twvars, rtvars>>

ReadWatermark == \E t \in Threads : ConcReadWatermark(t)
Fetch == \E t \in Threads : ConcFetch(t)
NothingToWrite == \E t \in Threads : ConcNothingToWrite(t)
CountExistingDates == \E t \in Threads : ConcCountExisting(t)
Upsert == \E t \in Threads : ConcUpsert(t)

InitConc ==
    /\ TwIdle
    /\ UpIdle
    /\ RtIdle
    /\ requests = [t \in Threads |-> ConcNew]

NextConc ==
    \/ ReadWatermark
    \/ Fetch
    \/ NothingToWrite
    \/ CountExistingDates
    \/ Upsert

SpecConc == InitConc /\ [][NextConc]_vars

-----------------------------------------------------------------------------
(* Properties of update_stocks                                             *)

LaterOf(a, b) == IF DateLT(a, b) THEN b ELSE a

\* the iteration just run asked fetch_stock_data for prices
Fetched == it.ran /\ it.fetched

\* the window the first fetcher was called with
PassedStart == it.calls[1].start
PassedEnd == it.calls[1].end

C3_StartNotAfterFetchedEnd ==
    (Fetched /\ DateLE(start_date, IF end_date = NoDate THEN Today ELSE end_date)) =>
        DateLE(PassedStart, PassedEnd)

\* the positions of rows, dates strictly increasing and closes positive
ValidSeries(rows) ==
    /\ \A k \in 1..(Len(rows) - 1) : DateLT(RowDate(rows[k]), RowDate(rows[k + 1]))
    /\ \A k \in 1..Len(rows) : RowClose(rows[k]) > 0

ReturnRowsOf(symbol) == { x \in stock_returns : x.symbol = symbol }

\* C4: a fetch that yields n >= 2 valid price rows with update_returns
\* enabled writes n - 1 rows to stock_returns, reports return_records = n - 1
\* and lists the symbol in results, not in errors.
C4_ReturnsWrittenAndReported ==
    (Fetched /\ update_returns /\ Len(it.rows) >= 2 /\ ValidSeries(it.rows)) =>
        /\ it.outcome = "results"
        /\ results # <<>>
        /\ results[Len(results)].symbol = it.symbol
        /\ results[Len(results)].return_records = Len(it.rows) - 1
        /\ Cardinality(ReturnRowsOf(it.symbol)) >= Len(it.rows) - 1

\* the case of C4: two valid rows fetched and stored, returns asked for
C4_Witness ==
    /\ Fetched
    /\ update_returns
    /\ Len(it.rows) >= 2
    /\ ValidSeries(it.rows)
    /\ it.wrote

\* C5: every price row written to the store has open, high, low and close
\* each strictly below 30000, whichever fetcher produced it.
C5_StoredPricesBelowLimit ==
    \A r \in stock_prices :
        /\ r.open_price < PriceLimit
        /\ r.high_price < PriceLimit
        /\ r.low_price < PriceLimit
        /\ r.close_price < PriceLimit

\* an over-the-counter quote at the bound was stored
C5_Witness ==
    /\ it.ran
    /\ it.wrote
    /\ it.symbol = Sym6488TWO
    /\ \E k \in 1..Len(it.values) : it.values[k].close_price >= PriceLimit

\* C6: stock_prices holds at most one row per (symbol, date), and that row's
\* open, high, low, close and volume are those of the most recent upsert for
\* the key.
C6_OneRowPerKeyLastWriteWins ==
    /\ \A r1 \in stock_prices, r2 \in stock_prices : KeyOf(r1) = KeyOf(r2) => r1 = r2
    /\ stock_prices = last_written

\* a stored key was upserted again with other prices
C6_Witness ==
    /\ it.ran
    /\ it.wrote
    /\ \E k \in 1..Len(it.values) :
        /\ it.values[k] \in stock_prices
        /\ \E r \in it.before : KeyOf(r) = KeyOf(it.values[k]) /\ r # it.values[k]

\* every row of the batch is stored already, as it is
AlreadyStored(values, table) == \A k \in 1..Len(values) : values[k] \in table

\* C7: upserting the same set of price rows a second time leaves the stored
\* rows as they were after the first upsert, and the second upsert counts as
\* many duplicates as it has rows and 0 new rows; the counts are those of the
\* result entry when the symbol is listed in results.
C7_SecondUpsertChangesNothing ==
    (it.ran /\ it.wrote /\ AlreadyStored(it.values, it.before)) =>
        /\ stock_prices = it.before
        /\ it.duplicate_records = Len(it.values)
        /\ it.price_records = 0
        /\ it.outcome = "results" =>
              /\ results[Len(results)].duplicate_records = Len(it.values)
              /\ results[Len(results)].price_records = 0

\* two stored rows were upserted again and the counts were reported
C7_Witness ==
    /\ it.ran
    /\ it.wrote
    /\ Len(it.values) = 2
    /\ AlreadyStored(it.values, it.before)
    /\ it.outcome = "results"

KeysOfBatch(values) == { KeyOf(values[k]) : k \in 1..Len(values) }
KeysOfTable(table) == { KeyOf(r) : r \in table }

\* C8: for every price batch update_stocks writes, duplicate_records is the
\* number of the batch's keys that existed before the write and price_records
\* is the number of rows that are new, which is the growth of the table.
C8_CountsMatchTheTable ==
    (it.ran /\ it.wrote) =>
        /\ it.duplicate_records =
              Cardinality(KeysOfBatch(it.values) \cap KeysOfTable(it.before))
        /\ it.price_records =
              Cardinality(KeysOfBatch(it.values) \ KeysOfTable(it.before))
        /\ it.price_records = Cardinality(stock_prices) - Cardinality(it.before)
        /\ it.outcome = "results" =>
              /\ results[Len(results)].duplicate_records = it.duplicate_records
              /\ results[Len(results)].price_records = it.price_records

\* a batch of one stored key and one new key was written
C8_Witness ==
    /\ it.ran
    /\ it.wrote
    /\ it.duplicate_records = 1
    /\ it.price_records = 1
    /\ Cardinality(stock_prices) = Cardinality(it.before) + 1

\* the number of entries of a list that are about the symbol
CountFor(list, symbol) == Cardinality({ k \in 1..Len(list) : list[k].symbol = symbol })

\* C9: update_stocks processes every requested symbol whatever happened to
\* the others: the symbols processed so far are each listed exactly once, in
\* results or in errors, and when the request is answered that is all of them.
C9_EachSymbolListedOnce ==
    /\ pc \in {"loop", "done"} =>
          \A k \in 1..Len(symbols) :
              CountFor(results, symbols[k]) + CountFor(errors, symbols[k])
                  = IF k < i THEN 1 ELSE 0
    /\ pc = "done" => i = Len(symbols) + 1

\* the first symbol of a batch failed and the second was still processed
C9_Witness ==
    /\ pc = "done"
    /\ Len(symbols) = 2
    /\ errors # <<>>
    /\ results # <<>>
    /\ errors[1].symbol = symbols[1]
    /\ results[1].symbol = symbols[2]

\* C10: for a non-index symbol fetch_stock_data calls exactly one primary
\* fetcher first; a non-empty result of it is returned whole and the fallback
\* is not called; otherwise the fallback is called once with the same start
\* and end and its result is what is returned.
C10_PrimaryThenFallback ==
    (Fetched /\ it.symbol # TWII) =>
        /\ Len(it.calls) \in {1, 2}
        /\ it.calls[1].fn \in {"twse", "tpex"}
        /\ Len(it.calls) = 1 =>
              /\ it.calls[1].rows # <<>>
              /\ it.rows = ToDataFrame(it.calls[1].rows)
        /\ Len(it.calls) = 2 =>
              /\ it.calls[1].rows = <<>>
              /\ it.calls[2].fn = "yfinance"
              /\ it.calls[2].start = it.calls[1].start
              /\ it.calls[2].end = it.calls[1].end
              /\ it.rows = it.calls[2].rows

\* the primary source gave nothing and the fallback supplied the rows
C10_Witness ==
    /\ Fetched
    /\ it.symbol # TWII
    /\ Len(it.calls) = 2
    /\ it.rows # <<>>

-----------------------------------------------------------------------------
(* Properties of the fetchers and of the orchestrator                      *)

\* the names of the fetchers the last iteration called
FetchersCalled == { it.calls[k].fn : k \in 1..Len(it.calls) }

\* C11: for the index ^TWII fetch_stock_data makes exactly one fetcher call,
\* the direct full-history one; the exchange fetcher, the over-the-counter
\* fetcher and the generic retrieval are not called, also when the direct
\* path returned an empty series.
C11_IndexUsesDirectPathOnly ==
    (Fetched /\ it.symbol = TWII) =>
        /\ Len(it.calls) = 1
        /\ FetchersCalled = {"twii"}
        /\ it.kind = "DataFrame"
        /\ it.rows = it.calls[1].rows

\* the index was fetched and the direct path returned nothing
C11_Witness ==
    /\ Fetched /\ it.symbol = TWII
    /\ it.calls # <<>> /\ it.calls[1].fn = "twii" /\ it.calls[1].rows = <<>>

\* every fetcher the last iteration tried returned nothing
AllFetchersEmpty ==
    /\ it.calls # <<>>
    /\ \A k \in 1..Len(it.calls) : it.calls[k].rows = <<>>

\* C12: when every fetcher tried for a symbol returns empty, update_stocks
\* lists the symbol in results with price_records = 0, does not list it in
\* errors, and writes no row.
C12_EmptyFetchIsZeroRowResult ==
    (Fetched /\ AllFetchersEmpty) =>
        /\ it.outcome = "results"
        /\ results # <<>>
        /\ results[Len(results)].symbol = it.symbol
        /\ results[Len(results)].price_records = 0
        /\ CountFor(errors, it.symbol) = 0
        /\ ~it.wrote
        /\ stock_prices = it.before

\* a listed symbol whose exchange fetcher and whose fallback both returned
\* nothing, in a request that also asked for returns
C12_Witness ==
    /\ Fetched /\ AllFetchersEmpty
    /\ Len(it.calls) = 2
    /\ update_returns
    /\ results # <<>>

\* rows strictly increasing by their date column
StrictlyIncreasing(rows) ==
    \A k \in 1..(Len(rows) - 1) : DateLT(RowDate(rows[k]), RowDate(rows[k + 1]))

\* C13: every price series returned by a fetcher is strictly increasing by
\* trade date, no two rows sharing a date, whatever rows the upstream answer
\* holds (repeated rows for one date included).
C13_SeriesStrictlyIncreasing ==
    Fetched => \A k \in 1..Len(it.calls) : StrictlyIncreasing(it.calls[k].rows)

\* the exchange fetcher returned two rows of one date
C13_Witness ==
    /\ Fetched
    /\ it.calls # <<>>
    /\ it.calls[1].fn = "twse"
    /\ Len(it.calls[1].rows) = 2
    /\ it.calls[1].rows[1].Date = it.calls[1].rows[2].Date

-----------------------------------------------------------------------------
(* Properties of the returns part                                          *)

\* the return labelled p among the period returns, as it is to be stored:
\* null when the period has no computed return
StoredPeriodReturn(period_returns, p) ==
    LET js == { j \in 1..Len(period_returns) : period_returns[j].Date = p }
    IN  IF js = {} THEN PyNone
        ELSE NoneIfNotFinite(period_returns[CHOOSE j \in js : TRUE].return)

\* the monthly half of C14
MonthlyOfTheRowsMonth ==
    \A k \in 1..Len(prepared) :
        prepared[k].monthly_return =
            StoredPeriodReturn(monthly_returns, MonthEnd(prepared[k].date))

\* the weekly half of C14
WeeklyOfTheRowsWeek ==
    \A k \in 1..Len(prepared) :
        prepared[k].weekly_return =
            StoredPeriodReturn(weekly_returns, WeekEnd(prepared[k].date))

\* C14: in every prepared daily row weekly_return is the return of the ISO
\* week containing the row's date and monthly_return the return of its
\* calendar month, also for a week that straddles a year boundary; a row
\* whose week or month has no computed return carries null, not another
\* period's value.
C14_PeriodReturnsOfTheRowsOwnPeriod ==
    (rt_pc = "prepared") => (WeeklyOfTheRowsWeek /\ MonthlyOfTheRowsMonth)

\* a row of Monday 2024-12-30 whose week, ending Sunday 2025-01-05, has a
\* computed return, and which was prepared with no weekly return
C14_Witness ==
    /\ rt_pc = "prepared"
    /\ \E k \in 1..Len(prepared) :
        /\ prepared[k].date = <<2024, 12, 30>>
        /\ prepared[k].weekly_return = PyNone
        /\ StoredPeriodReturn(weekly_returns, <<2025, 1, 5>>) # PyNone

\* (1 + return).cumprod() at row t of the sorted series, NaN entries skipped
RECURSIVE CumProdTo(_)
CumProdTo(t) ==
    IF t < 2 THEN <<1, 1>>
    ELSE LET g == GrowthRatio(RowClose(price_series[t - 1]), RowClose(price_series[t]))
         IN  IF g = <<0, 0>> THEN CumProdTo(t - 1) ELSE RatioMul(CumProdTo(t - 1), g)

\* the row of the series a prepared tuple was computed from
SeriesIndexOf(r) == CHOOSE t \in 1..Len(price_series) : price_series[t].Date = r.date

NotANumber(x) == x.k \in {"nan", "inf"}

\* C15: no return field of a prepared tuple carries NaN, an infinity or a
\* numeric stand-in for one: whenever the daily or cumulative return computed
\* for the row is NaN or infinite the prepared value is null, and no weekly or
\* monthly value is NaN or infinite.
C15_NonFiniteReturnsBecomeNull ==
    (rt_pc = "prepared") =>
        \A k \in 1..Len(prepared) :
            LET r == prepared[k]
                t == SeriesIndexOf(r)
            IN  /\ ~NotANumber(r.daily_return) /\ ~NotANumber(r.weekly_return)
                /\ ~NotANumber(r.monthly_return) /\ ~NotANumber(r.cumulative_return)
                /\ NotANumber(RatioMinusOne(GrowthRatio(RowClose(price_series[t - 1]),
                                                        RowClose(price_series[t]))))
                      => r.daily_return = PyNone
                /\ NotANumber(RatioMinusOne(CumProdTo(t))) => r.cumulative_return = PyNone

\* closes 0, c, 0: the third row's cumulative product is inf * 0 = NaN and
\* the tuple prepared for it carries 0.0
C15_Witness ==
    /\ rt_pc = "prepared"
    /\ Len(price_series) = 3
    /\ RowClose(price_series[1]) = 0 /\ RowClose(price_series[2]) > 0
    /\ RowClose(price_series[3]) = 0
    /\ Len(prepared) = 2
    /\ RatioMinusOne(CumProdTo(3)) = NaN
    /\ prepared[2].cumulative_return = Num(0)

\* calculate_returns has been applied to the series
Calculated == rt_pc \in {"calculated", "prepared"} /\ price_series # <<>>

\* the closes of the series are 100, 110, 99
Closes100_110_99 ==
    /\ Len(price_series) = 3
    /\ RowClose(price_series[1]) = 100
    /\ RowClose(price_series[2]) = 110
    /\ RowClose(price_series[3]) = 99

\* no return for the first day, daily returns 0.10 and -0.10 and the given
\* cumulative returns (millionths) for the second and third day
DailyOf100_110_99(c2, c3) ==
    /\ Len(daily_returns) = 2
    /\ daily_returns[1].Date = price_series[2].Date
    /\ daily_returns[2].Date = price_series[3].Date
    /\ daily_returns[1].return = Num(100000)
    /\ daily_returns[2].return = Num(-100000)
    /\ daily_returns[1].cumulative_return = Num(c2)
    /\ daily_returns[2].cumulative_return = Num(c3)

\* C16 as stated: on closes [100, 110, 99] the daily frequency yields no
\* return for the first day, daily returns 0.10 and -0.10, and cumulative
\* returns 0.10 and -0.009.
C16_CumulativeMinus0009 ==
    (Calculated /\ Closes100_110_99) => DailyOf100_110_99(100000, -9000)

\* C16 amended: on closes [100, 110, 99] the daily frequency yields no return
\* for the first day, daily returns 0.10 and -0.10, and cumulative returns
\* 0.10 and -0.01 (1.10 * 0.90 - 1).
C16_CumulativeMinus001 ==
    (Calculated /\ Closes100_110_99) => DailyOf100_110_99(100000, -10000)

\* the daily returns of closes 100, 110, 99 have been calculated
C16_Witness ==
    /\ Calculated /\ Closes100_110_99
    /\ Len(daily_returns) = 2
    /\ daily_returns[2].cumulative_return = Num(-10000)

PositiveCloses == \A t \in 1..Len(price_series) : RowClose(price_series[t]) > 0

\* a and b differ by at most one millionth
WithinRounding(a, b) == a.k = "num" /\ b.k = "num" /\ a.v - b.v \in {-1, 0, 1}

\* C17: for a series of n >= 2 points with distinct ascending dates and
\* positive closes the daily frequency yields n - 1 points, one per day after
\* the first, each with return close_t / close_{t-1} - 1 (to 6 places), and
\* the last cumulative_return is close_n / close_1 - 1 up to the 6-place
\* rounding; for fewer than 2 points it yields an empty list.
C17_DailyReturnsOfPositiveSeries ==
    (rt_pc \in {"calculated", "prepared"}) =>
        LET n == Len(price_series)
        IN  /\ n < 2 => daily_returns = <<>>
            /\ (n >= 2 /\ PositiveCloses) =>
                  /\ Len(daily_returns) = n - 1
                  /\ \A t \in 2..n :
                        /\ daily_returns[t - 1].Date = price_series[t].Date
                        /\ daily_returns[t - 1].return =
                              Num(Round6(RowClose(price_series[t]) - RowClose(price_series[t - 1]),
                                         RowClose(price_series[t - 1])))
                  /\ WithinRounding(daily_returns[n - 1].cumulative_return,
                                    Num(Round6(RowClose(price_series[n]) - RowClose(price_series[1]),
                                               RowClose(price_series[1]))))

\* three points with three different positive closes have been calculated
C17_Witness ==
    /\ rt_pc = "calculated"
    /\ Len(price_series) = 3
    /\ PositiveCloses
    /\ RowClose(price_series[1]) # RowClose(price_series[2])
    /\ RowClose(price_series[2]) # RowClose(price_series[3])
    /\ Len(daily_returns) = 2

\* the primary fetcher's call gave nothing: an error result (None) or an
\* empty list
PrimaryGaveNothing == it.calls[1].ret = "None" \/ it.calls[1].rows = <<>>

\* C18: whatever the sources answer, every fetcher call returns a value to
\* fetch_stock_data (a list, None or a frame, None carrying no rows), and an
\* error result of the primary fetcher is treated as an empty one: in both
\* cases the generic fallback is called with the same window and its result
\* is what fetch_stock_data returns.
C18_ErrorResultTreatedAsEmpty ==
    Fetched =>
        /\ it.calls # <<>>
        /\ \A k \in 1..Len(it.calls) :
              /\ it.calls[k].ret \in {"list", "None", "DataFrame"}
              /\ it.calls[k].ret = "None" => it.calls[k].rows = <<>>
        /\ (it.symbol # TWII /\ PrimaryGaveNothing) =>
              /\ Len(it.calls) = 2
              /\ it.calls[2].fn = "yfinance"
              /\ it.calls[2].start = it.calls[1].start
              /\ it.calls[2].end = it.calls[1].end
              /\ it.kind = it.calls[2].ret
              /\ it.rows = it.calls[2].rows

\* the exchange fetcher ended in its outer handler (None) and the fallback
\* supplied the rows
C18_Witness ==
    /\ Fetched
    /\ Len(it.calls) = 2
    /\ it.calls[1].fn = "twse"
    /\ it.calls[1].ret = "None"
    /\ it.rows # <<>>

-----------------------------------------------------------------------------
(* Properties of the exchange fetcher                                      *)

\* the days of the month the exchange's answers carry rows for
TwBodyDays == {5, 12, 20, 25}

\* C19: a row's local-era date Y/M/D is converted to (Y + 1911, M, D), so
\* 113/05/20 becomes 2024-05-20; every row collected or returned is such a
\* conversion of a row of a requested month and its date lies in
\* [start_date, end_date], both ends included.
C19_ConvertedDatesInsideWindow ==
    /\ TwseTradeDate([date |-> <<113, 5, 20>>]) = <<2024, 5, 20>>
    /\ \A k \in 1..Len(tw_result) :
          LET d == tw_result[k].Date
          IN  /\ DateLE(start_dt, d) /\ DateLE(d, end_dt)
              /\ \E j \in 1..Len(tw_rounds) : tw_rounds[j] = YM(d)
              /\ d[3] \in TwBodyDays
              /\ d[1] \in {2023, 2024}

\* a call has returned a list holding a row dated on the first day of its
\* window and a row dated on the last, after an answer that also carried rows
\* outside the window
C19_Witness ==
    /\ tw_pc = "done" /\ tw_ret = "list"
    /\ start_dt = <<2023, 11, 20>> /\ end_dt = <<2023, 12, 20>>
    /\ \E k \in 1..Len(tw_result) : tw_result[k].Date = start_dt
    /\ \E k \in 1..Len(tw_result) : tw_result[k].Date = end_dt

-----------------------------------------------------------------------------
(* Properties of the routing                                               *)

-----------------------------------------------------------------------------
(* Properties of concurrent requests                                       *)

\* the dates of the tuples a thread upserted
DatesWritten(t) ==
    IF requests[t].wrote
    THEN { requests[t].values[k].date : k \in 1..Len(requests[t].values) }
    ELSE {}

\* C21: the watermark read, the fetch and the write of one update are
\* serialized against other updates of the symbol: no two requests derive
\* their window from the same watermark value and write overlapping dates.
C21_UpdatesOfASymbolSerialized ==
    \A t \in Threads, u \in Threads :
        (t # u /\ requests[t].wrote /\ requests[u].wrote
            /\ requests[t].latest_dt = requests[u].latest_dt)
        => DatesWritten(t) \cap DatesWritten(u) = {}

\* both threads read the watermark of the empty table, fetched from
\* 2024-02-01 and wrote the row of 2024-02-01
C21_Witness ==
    /\ requests[1].wrote /\ requests[2].wrote
    /\ requests[1].latest_dt = NoDate /\ requests[2].latest_dt = NoDate
    /\ requests[1].effective_start = ConcStart /\ requests[2].effective_start = ConcStart
    /\ <<2024, 2, 1>> \in DatesWritten(1) \cap DatesWritten(2)

\* the keys of the tuples a thread upserted
KeysWritten(t) ==
    IF requests[t].wrote
    THEN { KeyOf(requests[t].values[k]) : k \in 1..Len(requests[t].values) }
    ELSE {}

\* t counted the whole batch as new
CountedAllNew(t) ==
    /\ requests[t].duplicate_count = 0
    /\ requests[t].price_records = Len(requests[t].values)

\* C22: the existence check and the upsert are not one atomic step: when
\* two requests ran their existence query before either wrote and then
\* both upserted the same (symbol, date) key, both report the key as new
\* and the table holds one row for it.
C22_BothReportTheKeyAsNew ==
    \A t \in Threads, u \in Threads :
        (t # u /\ requests[t].wrote /\ requests[u].wrote
            /\ requests[t].early /\ requests[u].early)
        => \A key \in KeysWritten(t) \cap KeysWritten(u) :
              /\ CountedAllNew(t)
              /\ CountedAllNew(u)
              /\ Cardinality({ r \in stock_prices : KeyOf(r) = key }) = 1

\* both requests checked before any write and then wrote 2024-02-01 with
\* different prices; each reports one new record
C22_Witness ==
    /\ requests[1].wrote /\ requests[2].wrote
    /\ requests[1].early /\ requests[2].early
    /\ KeysWritten(1) = KeysWritten(2)
    /\ Cardinality(KeysWritten(1)) = 1
    /\ requests[1].values # requests[2].values
    /\ requests[1].price_records = 1 /\ requests[2].price_records = 1
    /\ Cardinality(stock_prices) = 1

-----------------------------------------------------------------------------
(* Properties of a failed batch write                                      *)

\* the tuples of the last iteration form a statement PostgreSQL accepts
WritableBatch == it.values # <<>> /\ ~StatementFails(it.values)

\* C23: after the batch write of a symbol failed (and its retry in
\* sub-batches failed), every later symbol of the request is still written
\* normally on the same connection: an iteration whose own tuples are an
\* acceptable statement writes them.
C23_LaterSymbolsWrittenNormally ==
    (it.ran /\ it.fetched /\ WritableBatch) => it.wrote

\* the second symbol of a request, with acceptable tuples, ended in errors
\* because the first symbol's statement had failed on the connection
C23_Witness ==
    /\ it.ran /\ it.fetched /\ WritableBatch
    /\ ~it.wrote
    /\ it.outcome = "db"
    /\ Len(errors) = 2
    /\ errors[1].symbol # errors[2].symbol

-----------------------------------------------------------------------------
(* Properties of fetch_twse_stock_data under malformed input               *)

\* the month advance of this call cannot fail (C1): every month has the day
DayInEveryMonth == start_dt[3] <= 28

\* C24: a row that fails validation and a month whose body is malformed
\* drop only that row or month: a finished call returns the list of the
\* rows it collected from the other rows and months.
C24_OnlyTheBadRowOrMonthIsDropped ==
    (tw_pc = "done" /\ DayInEveryMonth) => tw_ret = "list"

\* a call that had collected rows of an earlier month returned None after
\* a later response
C24_Witness ==
    /\ tw_pc = "done"
    /\ DayInEveryMonth
    /\ tw_ret = "None"
    /\ Len(tw_rounds) >= 2
    /\ \E k \in 1..Len(tw_result) : YM(tw_result[k].Date) = tw_rounds[1]

-----------------------------------------------------------------------------
(* Properties of the fallback provider's range check                       *)

\* the last fetcher call of the iteration was the fallback provider
FallbackCalled == it.ran /\ it.calls # <<>> /\ it.calls[Len(it.calls)].fn = "yfinance"

\* a quote with a price at or over the bound
OverLimit(q) ==
    q.open >= PriceLimit \/ q.high >= PriceLimit \/ q.low >= PriceLimit
        \/ q.close >= PriceLimit

\* the quotes of the provider's frame inside the call's window
HeldInWindow ==
    { k \in 1..Len(it.held) :
        /\ DateLE(it.calls[Len(it.calls)].start, it.held[k].date)
        /\ DateLE(it.held[k].date, it.calls[Len(it.calls)].end) }

\* C25: in the generic fallback path the range check rejects the whole
\* series: when a price of the provider's series for the window is >= 30000
\* the call yields no rows, never the series less the offending rows.
C25_RangeCheckRejectsWholeSeries ==
    (FallbackCalled /\ \E k \in HeldInWindow : OverLimit(it.held[k]))
        => it.calls[Len(it.calls)].rows = <<>>

\* the provider held an ordinary row and a row at the bound, both in the
\* window; the fallback returned the ordinary row alone
C25_Witness ==
    /\ FallbackCalled
    /\ Cardinality(HeldInWindow) = 2
    /\ \E k \in HeldInWindow : OverLimit(it.held[k])
    /\ Len(it.calls[Len(it.calls)].rows) = 1
    /\ it.calls[Len(it.calls)].ret = "list"

-----------------------------------------------------------------------------
(* Properties of the retry loop of fetch_twse_stock_data                   *)

\* C26: a month's retry loop makes at most max_retries requests and ends;
\* the fetcher then moves on to the next month.
C26_RetryLoopEndsAndNextMonthFollows ==
    [][tw_pc = "advance" =>
          /\ retry_count <= max_retries
          /\ tw_pc' = "loop"
          /\ YM(current_date') = NextYM(YM(current_date))]_vars

\* the retries of a month were used up and the call then ended with None
\* instead of going on to the next month
C26_Witness ==
    /\ tw_pc = "done"
    /\ tw_ret = "None"
    /\ retry_count = max_retries
    /\ DateLT(current_date, end_dt)
    /\ YM(current_date) # YM(end_dt)

\* the bounds of the retry loop alone
RetryLoopBounded ==
    /\ retry_count <= max_retries
    /\ tw_pc = "request" => retry_count < max_retries

-----------------------------------------------------------------------------
(* Properties of fetch_tpex_stock_data                                     *)

\* the number of calendar days from s to e inclusive
RECURSIVE DaysInclusive(_, _)
DaysInclusive(s, e) == IF DateLE(s, e) THEN 1 + DaysInclusive(AddDay(s), e) ELSE 0

\* the rounds so far are the consecutive days from start_dt, each with at
\* most max_retries requests
RoundsAreConsecutiveDays ==
    /\ \A k \in 1..Len(tw_rounds) :
          /\ tw_rounds[k].day = AddDays(start_dt, k - 1)
          /\ tw_rounds[k].attempts <= max_retries
    /\ retry_count <= max_retries

\* a finished call made one round per day of the window and returned its list
FinishedAfterAllDays ==
    tw_pc = "done" =>
        /\ tw_ret = "list"
        /\ Len(tw_rounds) = DaysInclusive(start_dt, end_dt)

\* C27: fetch_tpex_stock_data runs one request round for every calendar day
\* from start_date to end_date inclusive, with at most 3 requests in a
\* round, advances to the next day after every round, and terminates after
\* end - start + 1 day rounds.
C27_OneRoundPerDayThenTerminates ==
    /\ [](RoundsAreConsecutiveDays /\ FinishedAfterAllDays)
    /\ (tw_pc = "loop") ~> (tw_pc = "done")

\* a finished call over three days across the year's end, one of whose
\* rounds used up its three requests and one of which succeeded at once
C27_Witness ==
    /\ tw_pc = "done"
    /\ Len(tw_rounds) = 3
    /\ tw_rounds[1].day = <<2023, 12, 30>>
    /\ tw_rounds[3].day = <<2024, 1, 1>>
    /\ \E k \in 1..3 : tw_rounds[k].attempts = max_retries /\ tw_rounds[k].table_data = <<>>
    /\ \E k \in 1..3 : tw_rounds[k].attempts = 1 /\ tw_rounds[k].table_data # <<>>

\* the positions of the rows of a table whose code is the target code
Matching(table_data) ==
    { m \in 1..Len(table_data) : table_data[m].code = TpStockCode }

\* the rows appended for a day
RowsOfDay(day) == { j \in 1..Len(tw_result) : tw_result[j].Date = day }

\* row j of the result is built from row m of the table
BuiltFrom(j, table_data, m) ==
    /\ tw_result[j].Close = table_data[m].close
    /\ tw_result[j].ticker.code = table_data[m].code

\* C28: for each day at most one row is appended, and it is built from the
\* first row of the response whose code equals stock_code, never from a
\* later matching row.
C28_FirstMatchingRowOnly ==
    \A k \in 1..Len(tw_rounds) :
        /\ Cardinality(RowsOfDay(tw_rounds[k].day)) <= 1
        /\ \A j \in RowsOfDay(tw_rounds[k].day) :
              \E m \in Matching(tw_rounds[k].table_data) :
                  /\ \A n \in Matching(tw_rounds[k].table_data) : m <= n
                  /\ BuiltFrom(j, tw_rounds[k].table_data, m)

\* a day whose first row of the target code had "---" as its close and
\* whose appended row carries the close of the second matching row
C28_Witness ==
    \E k \in 1..Len(tw_rounds) :
        /\ Cardinality(Matching(tw_rounds[k].table_data)) = 2
        /\ tw_rounds[k].table_data[1].close = Dash3
        /\ \E j \in RowsOfDay(tw_rounds[k].day) :
              BuiltFrom(j, tw_rounds[k].table_data, 2)

-----------------------------------------------------------------------------
(* Properties of the "--" sentinel of the exchange                         *)

\* the tuples update_stocks builds from the rows collected so far
TuplesOfCollected == ValuesOf(Sym2330TW, ToDataFrame(tw_result))

\* C29: "--" in a price field makes that price unavailable: no returned
\* row, and no tuple built from it for the table, carries a numeric price
\* of 0 (every numeric price the exchange prints here is positive).
C29_NoZeroPriceForDash ==
    \A k \in 1..Len(tw_result) :
        /\ 0 \notin {tw_result[k].Open, tw_result[k].High, tw_result[k].Low,
                      tw_result[k].Close}
        /\ TuplesOfCollected[k].close_price # 0

\* a returned list with a row of day 12 whose close is 0, the other prices
\* being those the exchange printed, and whose tuple has close_price 0
C29_Witness ==
    /\ tw_pc = "done"
    /\ tw_ret = "list"
    /\ \E k \in 1..Len(tw_result) :
          /\ tw_result[k].Date[3] = 12
          /\ tw_result[k].Close = 0
          /\ tw_result[k].Open = 100
          /\ TuplesOfCollected[k].close_price = 0

-----------------------------------------------------------------------------
(* Properties of the routing of suffixed symbols                           *)

\* the name of the first fetcher the iteration called
FirstFetcher == it.calls[1].fn

\* C30: an explicit market suffix is honoured: a symbol ending in .TW goes
\* to the exchange fetcher first and one ending in .TWO to the
\* over-the-counter fetcher first, whatever the catalog or the code-range
\* heuristic says about its code.
C30_SuffixDecidesTheFirstFetcher ==
    (it.ran /\ it.fetched /\ it.calls # <<>>) =>
        /\ it.symbol.suffix = "TW" => FirstFetcher = "twse"
        /\ it.symbol.suffix = "TWO" => FirstFetcher = "tpex"

\* '3034.TW', a code of the known over-the-counter list, was sent to the
\* over-the-counter fetcher
C30_Witness ==
    /\ it.ran /\ it.fetched
    /\ it.symbol = Sym3034TW
    /\ it.calls # <<>>
    /\ FirstFetcher = "tpex"
    /\ it.calls[1].rows # <<>>
    /\ it.calls[1].rows[1].ticker = Sym("3034", "TWO")

====
